---- MODULE Spec2Model ----
(***************************************************************************)
(* A model of the evo-sim simulation engine: World (world.ts), Creature    *)
(* (the biome-aware class, held in biome.ts from line 93), the genome      *)
(* decoders (genome.ts) and the biome table (biome.ts).                    *)
(*                                                                         *)
(* Numbers.  The code computes in floating point.  The model computes the  *)
(* same expressions in exact integers over fixed units:                    *)
(*   a gene g in [0,1]      is held as g * GeneUnit   (quarters),          *)
(*   a length in px         is held as px * PosUnit   (1/32 px),           *)
(*   an energy              is held as e * EnergyUnit (1/70000),           *)
(*   a Math.random() value  is held as r * RandOne    (r in 0..RandOne-1), *)
(*   a biome multiplier     is held in tenths.                             *)
(* Every Math.random() call of the code is a draw, \E r \in <a small set   *)
(* of values of Math.random()>, chosen so that the code's arithmetic on it *)
(* is exact in these units.  A run of the model is therefore a run of the  *)
(* code for one outcome of its random draws.                               *)
(*                                                                         *)
(* advance() is modelled as the sequence of its statements: AdvanceBegin   *)
(* (tick, food spawn, food cap), one UpdateCreature per entry of the       *)
(* creature Map in iteration order, AdvanceEnd (insert offspring, remove   *)
(* dead, generation, speciation check).  While pc # "idle" nothing else    *)
(* can happen, as the engine is single-threaded.                           *)
(***************************************************************************)
EXTENDS Integers, Sequences, FiniteSets, TLC

-----------------------------------------------------------------------------
(* Units (not bounds, not program constants).                              *)
GeneUnit == 2 * 2
PosUnit == 8 * GeneUnit
EnergyUnit == 7 * 10000
RandOne == 2 * 512

-----------------------------------------------------------------------------
(* Bounds of the exploration.                                              *)
MaxPop == 5          \* largest populationSize passed to initialize()
MaxTick == 2         \* Spec: advance() is not called once tick has reached this
MaxOps == 2          \* Spec: calls of initialize/paintBiome/triggerExtinctionEvent
MaxRare == 1         \* Spec: random draws that leave the default outcome
MaxIds == 8          \* creatures ever constructed (idCounter)
LongTick == 501      \* SpecLong: advance() is not called once tick has reached this
LongOps == 1         \* SpecLong: control calls
LongRare == 1        \* SpecLong: random draws that leave the default outcome
LongWindow == 1      \* SpecLong: control calls and such draws happen at ticks
                     \* t with t % 200 <= LongWindow
LabTick == 401       \* SpecSpeciation: advance() is not called once tick has reached this
LabOps == 2          \* SpecSpeciation: control calls
LabIds == 16         \* SpecSpeciation: creatures ever constructed
NurseryTick == 202   \* SpecNursery: advance() is not called once tick has reached this
NurseryRare == 1     \* SpecNursery: births
NurseryIds == 8      \* SpecNursery: creatures ever constructed
NurseryWindow == 2   \* SpecNursery: births happen in the ticks 200 .. 202

FieldTick == 2       \* SpecField: calls of advance()
FieldOps == 2        \* SpecField: control calls
FieldRare == 1       \* SpecField: draws that leave their default
FieldIds == 34       \* SpecField: creatures ever made
Crowd == 16          \* SpecField, SpecListeners: the larger herd
StageOps == 3        \* SpecListeners
MaxListeners == 3    \* SpecListeners: listeners ever registered
TrailTick == 6       \* SpecTrail: calls of advance()
TrailOps == 6        \* SpecTrail: control calls
TrailIds == 4        \* SpecTrail: creatures ever made
DuskTick == 401      \* SpecDusk: advance() is not called once tick has reached this
DuskOps == 2         \* SpecDusk: control calls
DuskIds == 4         \* SpecDusk: creatures ever made

-----------------------------------------------------------------------------
(* Program constants.                                                      *)
width == 1200
height == 800
GRID_COLS == 120
GRID_ROWS == 80
CELL_SIZE == 10
BIOME_COUNT == 5
FoodCap == 600
GenerationPeriod == 500
SpeciationPeriod == 200
MinSpeciationPop == 5
DeathPelletEnergy == 15
KillPelletEnergy == 20
AttackDamage == 25
AttackGain == 18
MaxEnergy == 100
ReproduceThreshold == 80
ReproduceCost == 40
NewbornEnergy == 50
HistoryLen == 5
foodAbundance == 1

primordial == 0      \* species id 'primordial'; n >= 1 stands for `species_${n}`

-----------------------------------------------------------------------------
(* Arithmetic helpers.                                                     *)
Min(a, b) == IF a < b THEN a ELSE b
Max(a, b) == IF a > b THEN a ELSE b
Abs(a) == IF a < 0 THEN -a ELSE a
Sign(a) == IF a < 0 THEN -1 ELSE IF a > 0 THEN 1 ELSE 0

\* Math.floor(a / b) for b > 0
FloorDiv(a, b) == a \div b

\* Math.ceil(a / b) for b > 0
CeilDiv(a, b) == -((-a) \div b)

RECURSIVE SqrtSearch(_, _, _)
SqrtSearch(n, lo, hi) ==
    IF lo >= hi THEN lo
    ELSE LET mid == (lo + hi + 1) \div 2
         IN  IF mid * mid <= n THEN SqrtSearch(n, mid, hi)
                               ELSE SqrtSearch(n, lo, mid - 1)

\* Math.sqrt on a non-negative integer below 2^30, rounded down
ISqrt(n) == SqrtSearch(n, 0, Min(n, 32767))

\* <<1, ..., n>>
Indices(n) == [i \in 1..n |-> i]

Range(s) == { s[i] : i \in DOMAIN s }

\* Math.random() * amount for the draw r, amount a multiple of 32 (the
\* product is formed without leaving 32 bits)
Scale(r, amount) == (r * (amount \div 32)) \div (RandOne \div 32)

-----------------------------------------------------------------------------
(* genome.ts                                                               *)
Gene(genome, i) == genome[i + 1]

getSpeed(genome) == PosUnit + (4 * Gene(genome, 0) * PosUnit) \div GeneUnit

getSize(genome) == 4 * PosUnit + (10 * Gene(genome, 1) * PosUnit) \div GeneUnit

getVisionRadius(genome) ==
    30 * PosUnit + (120 * Gene(genome, 2) * PosUnit) \div GeneUnit

getMetabolicRate(genome) == Gene(genome, 3)

getAggression(genome) == Gene(genome, 6)

getCamouflage(genome) == Gene(genome, 7)

\* getColor / the colour of a new species: <<hue, saturation>> of
\* `hsl(${h.toFixed(0)}, ${s.toFixed(0)}%, 45%)`
getColor(genome) ==
    << (Gene(genome, 4) * 360) \div GeneUnit,
       50 + (Gene(genome, 5) * 40) \div GeneUnit >>

\* crossover(a, b) with cut point `point`
crossover(a, b, point) ==
    [i \in 1..8 |-> IF i - 1 < point THEN a[i] ELSE b[i]]

\* mutate(genome, rate): noise[i] is gaussianRandom() * rate for gene i
mutate(genome, noise) ==
    [i \in 1..8 |-> Max(0, Min(GeneUnit, genome[i] + noise[i]))]

\* the square of geneticDistance(a, b), in GeneUnit^2
geneticDistanceSq(a, b) ==
    LET d(i) == a[i] - b[i]
    IN  d(1)*d(1) + d(2)*d(2) + d(3)*d(3) + d(4)*d(4)
        + d(5)*d(5) + d(6)*d(6) + d(7)*d(7) + d(8)*d(8)

-----------------------------------------------------------------------------
(* biome.ts: the table, in tenths, indexed by biome id + 1                 *)
BIOMES ==
    << [food |-> 10, visibility_mod |-> 10, move_cost |-> 10, camo_advantage |-> 8],
       [food |-> 14, visibility_mod |-> 4,  move_cost |-> 13, camo_advantage |-> 16],
       [food |-> 3,  visibility_mod |-> 18, move_cost |-> 8,  camo_advantage |-> 5],
       [food |-> 7,  visibility_mod |-> 6,  move_cost |-> 5,  camo_advantage |-> 12],
       [food |-> 5,  visibility_mod |-> 12, move_cost |-> 16, camo_advantage |-> 10] >>

\* The Uint8Array is held sparsely: a function from the indices of the cells
\* whose value is not 0 to that value; every other cell reads 0 (Savanna).
CellIndex(gridX, gridY) ==
    LET gx == Max(0, Min(GRID_COLS - 1, gridX))
        gy == Max(0, Min(GRID_ROWS - 1, gridY))
    IN  gy * GRID_COLS + gx

getBiomeIdAt(grid, gridX, gridY) ==
    LET idx == CellIndex(gridX, gridY)
    IN  IF idx \in DOMAIN grid THEN grid[idx] ELSE 0

getBiomeAt(grid, gridX, gridY) == BIOMES[getBiomeIdAt(grid, gridX, gridY) + 1]

\* Math.floor(p / CELL_SIZE) of a coordinate held in PosUnit
CellOf(p) == FloorDiv(p, CELL_SIZE * PosUnit)

EmptyGrid == <<>>

-----------------------------------------------------------------------------
(* The state.                                                              *)
VARIABLES
    creatures,                \* World.creatures: the Map's values, in insertion order
    foodPellets,              \* World.foodPellets
    extinctionHistory,        \* World.extinctionHistory
    biomeGrid,                \* World.biomeGrid (sparse, see getBiomeIdAt)
    migrationLog,             \* World.migrationLog: <<from, to>> -> count
    tick,                     \* World.tick
    generation,               \* World.generation
    nextSpeciesId,            \* World.nextSpeciesId
    speciesColors,            \* World.speciesColors: species id -> colour
    speciesLabels,            \* World.speciesLabels: species id -> label
    lastSpeciationCheck,      \* World.lastSpeciationCheck
    livingSpeciesCache,       \* World.livingSpeciesCache
    speciationEventsByBiome,  \* World.speciationEventsByBiome
    idCounter,                \* the module-level idCounter of the Creature module
    pc,                       \* where advance() stands: "idle" | "update"
    cursor,                   \* advance(): index of the next Map entry to update
    newCreatures,             \* advance(): the local newCreatures
    speciationListeners,      \* World.speciationListeners: listener ids, in array order
    adaptiveRadiationListeners, \* World.adaptiveRadiationListeners
    closures,                 \* history: the listeners made so far, by id: the array each
                              \*   was pushed to, whether its unsubscribe was called, and
                              \*   the number of control calls made before it was pushed
    delivered,                \* history: the calls made to listeners, in call order
    lastCall,                 \* history: the last World method called, with its arguments
    trace,                    \* history: what the running/last advance() or call did
    emitted,                  \* history: speciation events delivered since initialize()
    radiated,                 \* history: adaptive-radiation events delivered
    ops,                      \* history: number of control calls made
    rare                      \* history: number of non-default random draws made

worldVars == <<creatures, foodPellets, extinctionHistory, biomeGrid, migrationLog,
               tick, generation, nextSpeciesId, speciesColors, speciesLabels,
               lastSpeciationCheck, livingSpeciesCache, speciationEventsByBiome>>

vars == <<creatures, foodPellets, extinctionHistory, biomeGrid, migrationLog,
          tick, generation, nextSpeciesId, speciesColors, speciesLabels,
          lastSpeciationCheck, livingSpeciesCache, speciationEventsByBiome,
          idCounter, pc, cursor, newCreatures, lastCall, trace, emitted, radiated,
          ops, rare, speciationListeners, adaptiveRadiationListeners, closures,
          delivered>>

listenerVars == <<speciationListeners, adaptiveRadiationListeners, closures, delivered>>

-----------------------------------------------------------------------------
(* Random draws.  A draw r stands for Math.random() = r / RandOne.         *)

\* What a specification explores.  b.maxTick, b.maxOps and b.maxRare bound
\* the calls of advance(), the control calls and the draws that leave their
\* default; b.worlds are the <<populationSize, foodCount, layout>> that
\* initialize() is called and drawn with; only draws of the kinds b.kinds
\* leave their default, those of the kinds b.free without counting; control
\* calls and such draws happen at the ticks of the window.
Wide == [ maxTick |-> MaxTick, maxOps |-> MaxOps, maxRare |-> MaxRare, maxIds |-> MaxIds,
          windowLen |-> MaxTick,
          worlds |-> { <<n, 2, 1>> : n \in 0..MaxPop }
                     \cup { <<n, 0, layout>> : n \in 3..MaxPop, layout \in {2, 3} }
                     \cup { <<3, FoodCap, 2>> },
          kinds |-> {"spawn", "detect", "attack", "wander", "reproduce"},
          free |-> {"reproduce"},
          detects |-> {0},
          brushes |-> {<<60, 40, 1>>, <<120, 40, 1>>}, biomeTypes |-> {3} ]

Long == [ maxTick |-> LongTick, maxOps |-> LongOps, maxRare |-> LongRare, maxIds |-> MaxIds,
          windowLen |-> LongWindow,
          worlds |-> { <<n, 2, 1>> : n \in (MaxPop - 1)..MaxPop },
          kinds |-> {"reproduce"},
          free |-> {},
          detects |-> {0},
          brushes |-> {<<60, 40, 1>>}, biomeTypes |-> {3} ]

Lab == [ maxTick |-> LabTick, maxOps |-> LabOps, maxRare |-> 0, maxIds |-> LabIds,
         windowLen |-> 0,
         worlds |-> { <<MaxPop, 2, 1>> },
         kinds |-> {},
         free |-> {},
         detects |-> {0},
         brushes |-> {<<60, 40, 1>>}, biomeTypes |-> {3} ]

\* Hunts, standoffs and crowds: the worlds of layouts 4, 5 and 6, and herds of
\* Crowd - 1 and Crowd creatures; brushes inside, on and beyond the grid edge.
Field == [ maxTick |-> FieldTick, maxOps |-> FieldOps, maxRare |-> FieldRare,
           maxIds |-> FieldIds,
           windowLen |-> FieldTick,
           worlds |-> { <<2, 2, 4>>, <<3, 4, 4>>, <<3, 0, 5>>, <<4, 0, 6>>,
                        <<Crowd - 1, 0, 1>>, <<Crowd, 0, 1>> },
           kinds |-> {"detect", "attack", "reproduce"},
           free |-> {},
           detects |-> {307},
           brushes |-> {<<60, 40, 1>>, <<0, 40, 2>>, <<-2, 40, 1>>}, biomeTypes |-> {3} ]

\* Listeners coming and going around a speciation check and a brush over a
\* crowd: control calls at the ticks that are multiples of 200,
\* registrations and cancellations at those ticks and one tick earlier.
Stage == [ maxTick |-> SpeciationPeriod, maxOps |-> StageOps, maxRare |-> 0,
           maxIds |-> FieldIds,
           windowLen |-> 0,
           worlds |-> { <<Crowd, 0, 1>> },
           kinds |-> {},
           free |-> {},
           detects |-> {0},
           brushes |-> {<<60, 40, 1>>}, biomeTypes |-> {3},
           maxListeners |-> MaxListeners,
           listenTicks |-> {0, SpeciationPeriod - 1, SpeciationPeriod} ]

\* A cell painted back and forth under two grazers, until their biome
\* histories are full.
Trail == [ maxTick |-> TrailTick, maxOps |-> TrailOps, maxRare |-> 0, maxIds |-> TrailIds,
           windowLen |-> TrailTick,
           worlds |-> { <<2, 0, 1>> },
           kinds |-> {},
           free |-> {},
           detects |-> {0},
           brushes |-> {<<60, 40, 1>>}, biomeTypes |-> {0, 3} ]

\* Worlds of no creature or a few, through two periods of the check.
Dusk == [ maxTick |-> DuskTick, maxOps |-> DuskOps, maxRare |-> 0, maxIds |-> DuskIds,
          windowLen |-> 0,
          worlds |-> { <<0, 0, 1>>, <<2, 0, 1>> },
          kinds |-> {},
          free |-> {},
          detects |-> {0},
          brushes |-> {<<60, 40, 1>>}, biomeTypes |-> {3} ]

\* Two species side by side, fed well enough to breed, through a speciation
\* check and the ticks after it.
Nursery == [ maxTick |-> NurseryTick, maxOps |-> 0, maxRare |-> NurseryRare,
             maxIds |-> NurseryIds,
             windowLen |-> NurseryWindow,
             worlds |-> {},
             kinds |-> {"reproduce"},
             free |-> {},
             detects |-> {0},
             brushes |-> {}, biomeTypes |-> {} ]

InWindow(b, t) == t % SpeciationPeriod <= b.windowLen

\* the values a draw of the given kind may take at tick t: its default,
\* and the others inside the window while the budget lasts
Draws(b, t, kind, default, others) ==
    IF InWindow(b, t) /\ kind \in b.kinds /\ (rare < b.maxRare \/ kind \in b.free)
    THEN {default} \cup others
    ELSE {default}

\* what the draw r of the given kind takes from the budget
Cost(b, kind, r, default) == IF r = default \/ kind \in b.free THEN 0 ELSE 1

HalfDraw == RandOne \div 2      \* Math.random() = 0.5

-----------------------------------------------------------------------------
(* Creature (biome.ts 93-143)                                              *)

\* new Creature(genome, position, ancestorId) with id `c${id}`; velDraw is
\* the draw of velocity.dx, velocity.dy is drawn as 0.5
NewCreature(id, genome, position, ancestorId, velDraw) ==
    [ id |-> id,
      genome |-> genome,
      energy |-> NewbornEnergy * EnergyUnit,
      age |-> 0,
      speciesId |-> primordial,
      ancestorId |-> ancestorId,
      position |-> position,
      velocity |-> [dx |-> ((velDraw - HalfDraw) * 2 * PosUnit) \div RandOne, dy |-> 0],
      dead |-> FALSE,
      biomeHistory |-> <<>>,
      biomeResidencyTicks |-> 0 ]

radius(c) == getSize(c.genome)
speed(c) == getSpeed(c.genome)
visionRadius(c) == getVisionRadius(c.genome)
metabolicRate(c) == getMetabolicRate(c.genome)
aggression(c) == getAggression(c.genome)
camouflage(c) == getCamouflage(c.genome)

\* aggression > 0.6
IsAggressive(c) == 10 * aggression(c) > 6 * GeneUnit

-----------------------------------------------------------------------------
(* World queries (world.ts 538-586)                                        *)

\* dx*dx + dy*dy <= r*r, without leaving 32 bits
WithinRadius(dx, dy, r) ==
    /\ Abs(dx) <= r
    /\ Abs(dy) <= r
    /\ dx * dx + dy * dy <= r * r

\* getCreaturesInRadius without the test of the dead flag
getCreaturesInRadiusWithDead(cs, pos, r, excludeId) ==
    SelectSeq(Indices(Len(cs)),
              LAMBDA i : /\ cs[i].id # excludeId
                         /\ WithinRadius(cs[i].position.x - pos.x,
                                         cs[i].position.y - pos.y, r))

\* getCreaturesInRadius: indices into cs, in Map order
getCreaturesInRadius(cs, pos, r, excludeId) ==
    SelectSeq(Indices(Len(cs)),
              LAMBDA i : /\ cs[i].id # excludeId
                         /\ ~cs[i].dead
                         /\ WithinRadius(cs[i].position.x - pos.x,
                                         cs[i].position.y - pos.y, r))

\* getFoodInRadius: the pellets, in list order
getFoodInRadius(food, pos, r) ==
    SelectSeq(food, LAMBDA f : WithinRadius(f.x - pos.x, f.y - pos.y, r))

\* consumeFoodAt: the index of the pellet consumed, 0 when none is in reach
ConsumedIndex(food, pos, r) ==
    LET hit == SelectSeq(Indices(Len(food)),
                         LAMBDA i : WithinRadius(food[i].x - pos.x, food[i].y - pos.y, r))
    IN  IF hit = <<>> THEN 0 ELSE hit[1]

RemoveAt(s, i) == SubSeq(s, 1, i - 1) \o SubSeq(s, i + 1, Len(s))

\* spawnFoodAt with the push left out
spawnFoodNowhere(food, x, y, energy) == food

\* spawnFoodAt
spawnFoodAt(food, x, y, energy) ==
    Append(food, [x |-> x, y |-> y, energy |-> energy])

-----------------------------------------------------------------------------
(* The outcomes of the random draws of initialize() that are explored.     *)
(* Layout 1 ("herd"): grazers standing on one spot, the first pellets      *)
(* lying under them.  Layout 2 ("ambush"): two hunters out of each         *)
(* other's sight on either side of a prey, a big grazer on the prey's      *)
(* spot, then grazers far away.  Layout 3: layout 2 with a weaker prey.    *)
(* Layout 4 ("chase"): a well-fed stalker in contact with a prey, a pellet *)
(* on either side of it, the farther one first in the list; a grazer far   *)
(* away between two pellets, the nearer one last.  Layout 5 ("standoff"):  *)
(* two hunters in sight of each other, a prey between them.  Layout 6:     *)
(* layout 3 with a well-fed big grazer.                                    *)

Grazer    == <<0, 0, 0, 0, 2, 2, 0, 0>>   \* speed 1, radius 4, vision 30
Hunter    == <<0, 2, 0, 0, 0, 4, 3, 0>>   \* radius 9, vision 30, aggression 0.75
Prey      == <<0, 2, 0, 0, 1, 0, 0, 2>>   \* radius 9, aggression 0, camouflage 0.5
Stalker   == <<0, 2, 0, 0, 0, 4, 3, 4>>   \* a hunter with camouflage 1
BigGrazer == <<4, 4, 0, 0, 3, 1, 0, 0>>   \* speed 5, radius 14, aggression 0

\* createRandomGenome() for creature i
GenomeDraw(layout, i) ==
    IF layout = 1 THEN Grazer
    ELSE IF layout = 4 THEN (CASE i = 1 -> Stalker [] i = 2 -> Prey [] OTHER -> Grazer)
    ELSE IF layout = 5 THEN (CASE i = 3 -> Prey [] OTHER -> Hunter)
    ELSE CASE i = 1 -> Hunter
           [] i = 2 -> Hunter
           [] i = 3 -> Prey
           [] i = 4 -> BigGrazer
           [] OTHER -> Grazer

\* the draw of position.x for creature i
InitXDraw(layout, i) ==
    IF layout = 1 THEN HalfDraw
    ELSE IF layout = 4 THEN (CASE i = 1 -> HalfDraw [] i = 2 -> HalfDraw + 51
                               [] OTHER -> HalfDraw + 410)
    ELSE IF layout = 5 THEN (CASE i = 1 -> HalfDraw - 31 [] i = 2 -> HalfDraw + 31
                               [] OTHER -> HalfDraw)
    ELSE CASE i = 1 -> HalfDraw - 84
           [] i = 2 -> HalfDraw + 84
           [] i = 3 -> HalfDraw
           [] i = 4 -> HalfDraw
           [] OTHER -> HalfDraw + 400

\* the draw of energy for creature i
InitEnergyDraw(layout, i) ==
    IF layout \in {1, 4, 5} THEN RandOne - 8
    ELSE IF layout = 6 THEN (IF i = 4 THEN RandOne - 8 ELSE 0)
    ELSE IF i = 3 /\ layout = 2 THEN 257 ELSE 0

\* the draws of x and energy for pellet j
FoodXDraw(layout, j) ==
    IF layout = 1 /\ j <= 2 THEN HalfDraw
    ELSE IF layout = 4 /\ j <= 4
         THEN (CASE j = 1 -> 529 [] j = 2 -> 508 [] j = 3 -> 593 [] OTHER -> 575)
    ELSE 2 * ((11 * j) % 225)

FoodEnergyDraw(layout, j) ==
    IF layout = 1 /\ j <= 2 THEN RandOne - 64 ELSE 64 * (j % 16)

-----------------------------------------------------------------------------
(* Listeners (world.ts 117-141).  A listener is the function passed to     *)
(* onSpeciation / onAdaptiveRadiation, a closure made for that call        *)
(* (useSimulation.ts 49-51); it is named by the number of closures made    *)
(* before it, plus one.  What a listener does with an event is to record   *)
(* it; it calls no method of the world.                                    *)

\* the array keeps every listener
KeepAll(listeners, listener) == listeners

\* this.xListeners.filter((l) => l !== listener)
Without(listeners, listener) == SelectSeq(listeners, LAMBDA l : l # listener)

\* the calls of forEach((l) => l(event)), made for each event in turn
Calls(kind, events, listeners) ==
    [ k \in 1 .. Len(events) * Len(listeners) |->
        [ to |-> listeners[((k - 1) % Len(listeners)) + 1],
          kind |-> kind,
          event |-> events[((k - 1) \div Len(listeners)) + 1] ] ]

\* world.onSpeciation(listener)
OnSpeciation(b) ==
    /\ pc = "idle"
    /\ tick \in b.listenTicks
    /\ Len(closures) < b.maxListeners
    /\ speciationListeners' = Append(speciationListeners, Len(closures) + 1)
    /\ closures' = Append(closures, [kind |-> "speciation", cancelled |-> FALSE,
                                   madeAt |-> ops])
    /\ UNCHANGED <<creatures, foodPellets, extinctionHistory, biomeGrid, migrationLog,
                   tick, generation, nextSpeciesId, speciesColors, speciesLabels,
                   lastSpeciationCheck, livingSpeciesCache, speciationEventsByBiome,
                   idCounter, pc, cursor, newCreatures, lastCall, trace, emitted,
                   radiated, ops, rare, adaptiveRadiationListeners, delivered>>

\* world.onAdaptiveRadiation(listener)
OnAdaptiveRadiation(b) ==
    /\ pc = "idle"
    /\ tick \in b.listenTicks
    /\ Len(closures) < b.maxListeners
    /\ adaptiveRadiationListeners' = Append(adaptiveRadiationListeners, Len(closures) + 1)
    /\ closures' = Append(closures, [kind |-> "radiation", cancelled |-> FALSE,
                                   madeAt |-> ops])
    /\ UNCHANGED <<creatures, foodPellets, extinctionHistory, biomeGrid, migrationLog,
                   tick, generation, nextSpeciesId, speciesColors, speciesLabels,
                   lastSpeciationCheck, livingSpeciesCache, speciationEventsByBiome,
                   idCounter, pc, cursor, newCreatures, lastCall, trace, emitted,
                   radiated, ops, rare, speciationListeners, delivered>>

\* a call of the function that onSpeciation / onAdaptiveRadiation returned
Unsubscribe(b) ==
    /\ pc = "idle"
    /\ tick \in b.listenTicks
    /\ \E listener \in DOMAIN closures :
         /\ IF closures[listener].kind = "speciation"
            THEN /\ speciationListeners' = Without(speciationListeners, listener)
                 /\ UNCHANGED adaptiveRadiationListeners
            ELSE /\ adaptiveRadiationListeners' =
                        Without(adaptiveRadiationListeners, listener)
                 /\ UNCHANGED speciationListeners
         /\ closures' = [closures EXCEPT ![listener].cancelled = TRUE]
    /\ UNCHANGED <<creatures, foodPellets, extinctionHistory, biomeGrid, migrationLog,
                   tick, generation, nextSpeciesId, speciesColors, speciesLabels,
                   lastSpeciationCheck, livingSpeciesCache, speciationEventsByBiome,
                   idCounter, pc, cursor, newCreatures, lastCall, trace, emitted,
                   radiated, ops, rare, delivered>>

-----------------------------------------------------------------------------
(* World.initialize (world.ts 143-178)                                     *)

\* the creature made by iteration i of the first loop, with id `c${id}`
InitCreature(layout, i, id) ==
    LET c == NewCreature(id, GenomeDraw(layout, i),
                 [ x |-> (width \div 2) * PosUnit
                         + ((InitXDraw(layout, i) - HalfDraw) * 200 * PosUnit) \div RandOne,
                   y |-> (height \div 2) * PosUnit ],
                 0, HalfDraw)
    IN  [c EXCEPT !.speciesId = primordial,
                  !.energy = 40 * EnergyUnit
                             + Scale(InitEnergyDraw(layout, i), 40 * EnergyUnit)]

\* the pellet made by iteration j of the second loop
InitPellet(layout, j) ==
    [ x |-> (FoodXDraw(layout, j) * width * PosUnit) \div RandOne,
      y |-> (HalfDraw * height * PosUnit) \div RandOne,
      energy |-> 10 * EnergyUnit + Scale(FoodEnergyDraw(layout, j), 10 * EnergyUnit) ]

PrimordialColor == <<140, 65>>      \* 'hsl(140, 65%, 45%)'
PrimordialLabel == "Primordial"

\* history: trace.clusters, trace.speciesBefore and trace.logBefore hold the
\* clusters the pass of the last advance() computed (indices into the stored
\* list), the species ids stored before it and the extinction log before it.
\* history: trace.migrationBefore is the migration log that the running/last
\* advance() found; trace.moves lists its updates of creatures that were not
\* dead: the id, the last entry of the biome history before and after the
\* update (-1: none), the dead flag after it.
\* history: what the last update() of the running advance() did: the index
\* updated, the state chosen, the ids returned by getCreaturesInRadius, the
\* detection draws by id, the id of the target, of the creature attacked
\* and of the mate (0: none), the energy after the metabolic cost
NoUpdate == [ at |-> 0, state |-> "none", seen |-> {}, detect |-> <<>>, target |-> 0,
              attacked |-> 0, mate |-> 0, afterCost |-> 0 ]

InitialHistory ==
    [ initialized |-> FALSE, initPop |-> 0, initFood |-> 0, advances |-> 0,
      clean |-> TRUE, deaths |-> <<>>, eaten |-> <<>>, births |-> 0,
      passRan |-> FALSE, passTicks |-> <<>>, clusters |-> <<>>, speciesBefore |-> <<>>, logBefore |-> <<>>,
      migrationBefore |-> <<>>, moves |-> <<>>,
      lastCheckBefore |-> 0, popBefore |-> 0,
      spawned |-> <<>>, evicted |-> 0,
      brush |-> <<0, 0, 0, 0>>, last |-> NoUpdate, madeIds |-> {} ]

NoCall == [op |-> "new", a |-> 0, b |-> 0, dirty |-> {}]

\* history: the fields that a call finds away from their initial values
DirtyFields ==
    (IF creatures # <<>> THEN {"creatures"} ELSE {})
    \cup (IF foodPellets # <<>> THEN {"foodPellets"} ELSE {})
    \cup (IF extinctionHistory # <<>> THEN {"extinctionHistory"} ELSE {})
    \cup (IF tick # 0 THEN {"tick"} ELSE {})
    \cup (IF nextSpeciesId # 1 THEN {"nextSpeciesId"} ELSE {})
    \cup (IF DOMAIN speciesColors # {primordial} THEN {"speciesColors"} ELSE {})
    \cup (IF DOMAIN speciesLabels # {primordial} THEN {"speciesLabels"} ELSE {})
    \cup (IF lastSpeciationCheck # 0 THEN {"lastSpeciationCheck"} ELSE {})
    \cup (IF biomeGrid # EmptyGrid THEN {"biomeGrid"} ELSE {})
    \cup (IF migrationLog # <<>> THEN {"migrationLog"} ELSE {})

\* world.ts 167-174: the food list built by the second loop
InitFood(foodCount, layout) == [j \in 1..foodCount |-> InitPellet(layout, j)]

\* initialize() without world.ts 149-151: the species registry and its
\* counter are kept
InitializeKeepingRegistry(populationSize, foodCount, layout) ==
    /\ creatures' = [i \in 1..populationSize |-> InitCreature(layout, i, idCounter + i)]
    /\ idCounter' = idCounter + populationSize
    /\ foodPellets' = InitFood(foodCount, layout)
    /\ extinctionHistory' = <<>>
    /\ tick' = 0
    /\ generation' = 0
    /\ nextSpeciesId' = nextSpeciesId
    /\ speciesColors' = speciesColors
    /\ speciesLabels' = speciesLabels
    /\ lastSpeciationCheck' = 0
    /\ livingSpeciesCache' = {primordial}
    /\ biomeGrid' = EmptyGrid
    /\ migrationLog' = <<>>
    /\ speciationEventsByBiome' = <<>>

\* initialize() with the id counter set back: the ids start at c1 again
InitializeRestartingIds(populationSize, foodCount, layout) ==
    /\ creatures' = [i \in 1..populationSize |-> InitCreature(layout, i, i)]
    /\ idCounter' = populationSize
    /\ foodPellets' = InitFood(foodCount, layout)
    /\ extinctionHistory' = <<>>
    /\ tick' = 0
    /\ generation' = 0
    /\ nextSpeciesId' = 1
    /\ speciesColors' = (primordial :> PrimordialColor)
    /\ speciesLabels' = (primordial :> PrimordialLabel)
    /\ lastSpeciationCheck' = 0
    /\ livingSpeciesCache' = {primordial}
    /\ biomeGrid' = EmptyGrid
    /\ migrationLog' = <<>>
    /\ speciationEventsByBiome' = <<>>

InitializeBody(populationSize, foodCount, layout) ==
    /\ creatures' = [i \in 1..populationSize |-> InitCreature(layout, i, idCounter + i)]
    /\ idCounter' = idCounter + populationSize
    /\ foodPellets' = InitFood(foodCount, layout)
    /\ extinctionHistory' = <<>>
    /\ tick' = 0
    /\ generation' = 0
    /\ nextSpeciesId' = 1
    /\ speciesColors' = (primordial :> PrimordialColor)
    /\ speciesLabels' = (primordial :> PrimordialLabel)
    /\ lastSpeciationCheck' = 0
    /\ livingSpeciesCache' = {primordial}
    /\ biomeGrid' = EmptyGrid
    /\ migrationLog' = <<>>
    /\ speciationEventsByBiome' = <<>>

Initialize(b) ==
    /\ pc = "idle"
    /\ InWindow(b, tick)
    /\ ops < b.maxOps
    /\ \E w \in b.worlds :
         /\ idCounter + w[1] <= b.maxIds
         /\ InitializeBody(w[1], w[2], w[3])
         /\ lastCall' = [ op |-> "initialize", a |-> w[1], b |-> w[2],
                          dirty |-> DirtyFields ]
         /\ trace' = [InitialHistory EXCEPT !.initialized = TRUE,
                                            !.initPop = w[1],
                                            !.initFood = w[2],
                                            !.madeIds = trace.madeIds \cup
                                                { creatures'[i].id : i \in DOMAIN creatures' }]
    /\ emitted' = <<>>
    /\ ops' = ops + 1
    /\ UNCHANGED <<pc, cursor, newCreatures, radiated, rare>>
    /\ UNCHANGED listenerVars

-----------------------------------------------------------------------------
(* World.advance, first part (world.ts 180-200): tick, food spawn, cap     *)

SpawnAttempts == CeilDiv(2 * foodAbundance * 15, 10)

\* the default draws of x and energy for attempt i of the advance() reaching tick t
SpawnXDefault(t, i) == 2 * ((7 * (3 * t + i)) % 225)
SpawnEnergyDefault(t, i) == 16 * ((3 * t + i) % 64)

\* the other outcome explored: a rich pellet at the middle of the world
SpawnXHot == HalfDraw
SpawnEnergyHot == RandOne - 16

\* one attempt: the food list after it.  accept is the draw compared with
\* the biome's food density.
SpawnAttempt(food, grid, xDraw, yDraw, acceptDraw, energyDraw) ==
    LET x == (xDraw * width * PosUnit) \div RandOne
        y == (yDraw * height * PosUnit) \div RandOne
        biomeFood == BIOMES[getBiomeIdAt(grid, CellOf(x), CellOf(y)) + 1].food
    IN  IF acceptDraw * 10 < biomeFood * RandOne
        THEN Append(food, [ x |-> x, y |-> y,
                            energy |-> 8 * EnergyUnit
                                       + Scale(energyDraw, 12 * EnergyUnit) ])
        ELSE food

RECURSIVE SpawnAll(_, _, _, _, _)
\* attempts i..SpawnAttempts; hot[i] says whether attempt i takes the other outcome
SpawnAll(food, grid, t, i, hot) ==
    IF i > SpawnAttempts THEN food
    ELSE SpawnAll(SpawnAttempt(food, grid,
                               IF hot[i] THEN SpawnXHot ELSE SpawnXDefault(t, i),
                               HalfDraw, HalfDraw,
                               IF hot[i] THEN SpawnEnergyHot ELSE SpawnEnergyDefault(t, i)),
                  grid, t, i + 1, hot)

\* the cap: splice(0, length - 600)
CapFood(food) ==
    IF Len(food) > FoodCap THEN SubSeq(food, Len(food) - FoodCap + 1, Len(food)) ELSE food

HotCount(hot) == Cardinality({i \in DOMAIN hot : hot[i]})

\* world.ts 198-200 on the list the spawn loop left, with the history of it
CommitSpawn(spawned) ==
    /\ foodPellets' = CapFood(spawned)
    /\ trace' = [trace EXCEPT !.advances = @ + 1, !.deaths = <<>>, !.eaten = <<>>,
                              !.last = NoUpdate,
                              !.births = 0, !.passRan = FALSE,
                              !.popBefore = Len(creatures),
                              !.migrationBefore = migrationLog, !.moves = <<>>,
                              !.lastCheckBefore = lastSpeciationCheck,
                              !.spawned = spawned,
                              !.evicted = Len(spawned) - Len(CapFood(spawned))]

AdvanceBegin(b) ==
    /\ pc = "idle"
    /\ tick < b.maxTick
    /\ tick' = tick + 1
    /\ \E hot \in [1..SpawnAttempts -> BOOLEAN] :
         /\ \A i \in 2..SpawnAttempts : ~hot[i]
         /\ HotCount(hot) > 0 => /\ InWindow(b, tick + 1)
                                 /\ "spawn" \in b.kinds
                                 /\ rare + HotCount(hot) <= b.maxRare
         /\ rare' = rare + HotCount(hot)
         /\ CommitSpawn(SpawnAll(foodPellets, biomeGrid, tick + 1, 1, hot))
    /\ pc' = "update"
    /\ cursor' = 1
    /\ newCreatures' = <<>>
    /\ lastCall' = [op |-> "advance", a |-> 0, b |-> 0, dirty |-> {}]
    /\ UNCHANGED <<creatures, extinctionHistory, biomeGrid, migrationLog, generation,
                   nextSpeciesId, speciesColors, speciesLabels, lastSpeciationCheck,
                   livingSpeciesCache, speciationEventsByBiome, idCounter, emitted, radiated,
                   ops>>
    /\ UNCHANGED listenerVars

-----------------------------------------------------------------------------
(* Creature.update (biome.ts 145-343)                                      *)

\* (dx / dist) * spd with dist = Math.sqrt(dx*dx + dy*dy) || 1
Toward(dx, dy, spd) ==
    LET d2 == dx * dx + dy * dy
        dist == ISqrt(d2)
    IN  IF d2 = 0 THEN [dx |-> 0, dy |-> 0]
        ELSE [ dx |-> Sign(dx) * ((Abs(dx) * spd) \div dist),
               dy |-> Sign(dy) * ((Abs(dy) * spd) \div dist) ]

\* squared distance between two points
Dist2(ax, ay, bx, by) == (ax - bx) * (ax - bx) + (ay - by) * (ay - by)

RECURSIVE NearestFrom(_, _, _)
\* reduce((closest, c) => d1 < d2 ? c : closest) over positions i.. of a
\* list whose squared distances are d2s: the position of the result
NearestFrom(d2s, i, closest) ==
    IF i > Len(d2s) THEN closest
    ELSE NearestFrom(d2s, i + 1, IF d2s[i] < d2s[closest] THEN i ELSE closest)

Nearest(d2s) == NearestFrom(d2s, 2, 1)

\* steerToward(tx, ty, spd)
steerToward(c, tx, ty, spd) == Toward(tx - c.position.x, ty - c.position.y, spd)

\* wander(spd): deltaX is the perturbation of velocity.dx, that of
\* velocity.dy is drawn as 0
wander(c, spd, deltaX) ==
    Toward(c.velocity.dx + deltaX, c.velocity.dy, spd)

\* the perturbation (Math.random() - 0.5) * 0.4 of a wander draw
WanderDelta(r) == ((r - HalfDraw) * 4 * PosUnit) \div (10 * RandOne)

WanderDefault == HalfDraw
WanderOthers == {HalfDraw - 480}

\* Math.random() > effectiveCamouflage * 0.5
Detects(r, c, biome) == 80 * r > RandOne * camouflage(c) * biome.camo_advantage

DetectDefault == RandOne - 1

\* Math.random() < this.aggression
AttackHits(r, c) == GeneUnit * r < RandOne * aggression(c)

AttackDefault == 0
AttackOthers == {800}

\* Math.random() < 0.008
ReproduceDraws == {0, HalfDraw}
Reproduces(r) == 1000 * r < 8 * RandOne

\* the metabolic cost of one tick in a biome
MetabolicCost(c, biome) ==
    LET baseCost == (5 * EnergyUnit) \div 100
                    + (metabolicRate(c) * 8 * EnergyUnit) \div (100 * GeneUnit)
                    + (radius(c) * 4 * EnergyUnit) \div (14 * 100 * PosUnit)
                    + (speed(c) * 4 * EnergyUnit) \div (5 * 100 * PosUnit)
    IN  (baseCost * biome.move_cost) \div 10

\* this.speed * (1 / biome.move_cost)
EffectiveSpeed(c, biome) == (speed(c) * 10) \div biome.move_cost

\* this.visionRadius * biome.visibility_mod
EffectiveVision(c, biome) == (visionRadius(c) * biome.visibility_mod) \div 10

\* a threat to c only when c is not aggressive itself
IsThreatToTheMeek(o, c) ==
    IsAggressive(o) /\ 10 * radius(o) > 8 * radius(c) /\ ~IsAggressive(c)

\* a threat to c
IsThreat(o, c) == IsAggressive(o) /\ 10 * radius(o) > 8 * radius(c)

\* a candidate prey of c, before the detection draw
IsPreySized(o, c) == 10 * radius(o) < 12 * radius(c)

\* The behaviour decision (biome.ts 166-239) of creatures[me]: the new
\* velocity, the state chosen, and the index of the creature attacked (0 if
\* none).  detect maps candidate indices to their detection draws.
Decide(cs, me, nearby, food, biome, detect, attackDraw, wanderDraw) ==
    LET c == cs[me]
        spd == EffectiveSpeed(c, biome)
        D2c(k) == Dist2(cs[k].position.x, cs[k].position.y, c.position.x, c.position.y)
        threats == SelectSeq(nearby, LAMBDA k : IsThreat(cs[k], c))
        visiblePrey == SelectSeq(nearby, LAMBDA k : /\ IsPreySized(cs[k], c)
                                                    /\ Detects(detect[k], c, biome))
    IN  IF threats # <<>> THEN
            LET threat == cs[threats[Nearest([k \in DOMAIN threats |-> D2c(threats[k])])]]
            IN  [ velocity |-> Toward(c.position.x - threat.position.x,
                                      c.position.y - threat.position.y, spd),
                  state |-> "fleeing", attacked |-> 0, target |-> threat.id,
                  contact |-> FALSE ]
        ELSE IF IsAggressive(c) /\ nearby # <<>> THEN
            IF visiblePrey # <<>> THEN
                LET p == visiblePrey[Nearest([k \in DOMAIN visiblePrey |-> D2c(visiblePrey[k])])]
                    prey == cs[p]
                    reach == radius(c) + radius(prey) + 2 * PosUnit
                    contact == /\ Abs(prey.position.x - c.position.x) < reach
                               /\ Abs(prey.position.y - c.position.y) < reach
                               /\ D2c(p) < reach * reach
                IN  [ velocity |-> Toward(prey.position.x - c.position.x,
                                          prey.position.y - c.position.y, spd),
                      state |-> "hunting",
                      attacked |-> IF contact /\ AttackHits(attackDraw, c) THEN p ELSE 0,
                      target |-> prey.id, contact |-> contact ]
            ELSE IF food # <<>> THEN
                [ velocity |-> steerToward(c, food[1].x, food[1].y, spd),
                  state |-> "foraging", attacked |-> 0, target |-> 0, contact |-> FALSE ]
            ELSE
                [ velocity |-> wander(c, spd, WanderDelta(wanderDraw)),
                  state |-> "wandering", attacked |-> 0, target |-> 0, contact |-> FALSE ]
        ELSE IF food # <<>> THEN
            LET D2f(j) == Dist2(food[j].x, food[j].y, c.position.x, c.position.y)
                nearest == food[Nearest([j \in DOMAIN food |-> D2f(j)])]
            IN  [ velocity |-> steerToward(c, nearest.x, nearest.y, spd),
                  state |-> "foraging", attacked |-> 0, target |-> 0, contact |-> FALSE ]
        ELSE
            [ velocity |-> wander(c, spd, WanderDelta(wanderDraw)),
              state |-> "wandering", attacked |-> 0, target |-> 0, contact |-> FALSE ]

\* the last entry of biomeHistory, or the given default when it is empty
LastBiome(c, default) ==
    IF Len(c.biomeHistory) > 0 THEN c.biomeHistory[Len(c.biomeHistory)] ELSE default

\* the history without its cap (no shift)
TrackBiomeUncapped(c, currentBiomeId) ==
    IF currentBiomeId # LastBiome(c, -1)
    THEN [c EXCEPT !.biomeHistory = Append(@, currentBiomeId), !.biomeResidencyTicks = 0]
    ELSE [c EXCEPT !.biomeResidencyTicks = @ + 1]

\* biome.ts 265-279
TrackBiome(c, currentBiomeId) ==
    IF currentBiomeId # LastBiome(c, -1)
    THEN LET pushed == Append(c.biomeHistory, currentBiomeId)
         IN  [c EXCEPT !.biomeHistory = IF Len(pushed) > HistoryLen THEN Tail(pushed)
                                                                    ELSE pushed,
                       !.biomeResidencyTicks = 0]
    ELSE [c EXCEPT !.biomeResidencyTicks = @ + 1]

\* biome.ts 241-263: move by the velocity, clamp, bounce
Move(c) ==
    LET r == radius(c)
        x == Max(r, Min(width * PosUnit - r, c.position.x + c.velocity.dx))
        y == Max(r, Min(height * PosUnit - r, c.position.y + c.velocity.dy))
        bx == x <= r \/ x >= width * PosUnit - r
        by == y <= r \/ y >= height * PosUnit - r
    IN  [c EXCEPT !.position = [x |-> x, y |-> y],
                  !.velocity = [ dx |-> IF bx THEN -c.velocity.dx ELSE c.velocity.dx,
                                 dy |-> IF by THEN -c.velocity.dy ELSE c.velocity.dy ]]

\* biome.ts 210-220: the attack of cs[me] on cs[p]
Attack(cs, me, p) ==
    LET hurt == cs[p].energy - AttackDamage * EnergyUnit
    IN  [cs EXCEPT ![p].energy = hurt,
                   ![p].dead = (hurt <= 0),
                   ![me].energy = @ + AttackGain * EnergyUnit]

\* biome.ts 281-284: the energy after consuming a pellet
Feed(energy, pelletEnergy) == Min(MaxEnergy * EnergyUnit, energy + pelletEnergy)

\* biome.ts 294: the creature dies of its metabolism
Starves(energy) == energy <= 0

\* biome.ts 301, first conjunct
CanReproduce(energy) == energy > ReproduceThreshold * EnergyUnit

NoNoise == <<0, 0, 0, 0, 0, 0, 0, 0>>

\* the child is made without an ancestor
MakeOrphan(c, id, mates, point, noise, offsetDraw, velDraw) ==
    LET childGenome == IF mates # <<>> THEN mutate(crossover(c.genome, mates[1].genome, point), noise)
                                       ELSE mutate(c.genome, noise)
        child == NewCreature(id, childGenome, c.position, 0, velDraw)
    IN  [child EXCEPT !.speciesId = c.speciesId]

\* the child founds a species of its own
MakeChildOfNewSpecies(c, id, mates, point, noise, offsetDraw, velDraw) ==
    LET childGenome == IF mates # <<>> THEN mutate(crossover(c.genome, mates[1].genome, point), noise)
                                       ELSE mutate(c.genome, noise)
        child == NewCreature(id, childGenome, c.position, c.id, velDraw)
    IN  [child EXCEPT !.speciesId = c.speciesId + 1]

\* the child keeps the species id its constructor gave it
MakeChildUnassigned(c, id, mates, point, noise, offsetDraw, velDraw) ==
    LET childGenome == IF mates # <<>> THEN mutate(crossover(c.genome, mates[1].genome, point), noise)
                                       ELSE mutate(c.genome, noise)
    IN  NewCreature(id, childGenome, c.position, c.id, velDraw)

\* biome.ts 318-339: the child of parent c; mate is a creature or <<>>
MakeChild(c, id, mates, point, noise, offsetDraw, velDraw) ==
    LET childGenome == IF mates # <<>> THEN mutate(crossover(c.genome, mates[1].genome, point), noise)
                                       ELSE mutate(c.genome, noise)
        r == radius(c)
        off == ((offsetDraw - HalfDraw) * 20 * PosUnit) \div RandOne
        child == NewCreature(id, childGenome,
                     [ x |-> Max(r, Min(width * PosUnit - r, c.position.x + off)),
                       y |-> Max(r, Min(height * PosUnit - r, c.position.y)) ],
                     c.id, velDraw)
    IN  [child EXCEPT !.speciesId = c.speciesId]

\* One call creatures[me].update(world) on a creature that is not dead,
\* written as the sequence of its steps; each step hands what it computed
\* to the next.  x holds the arguments: the creature list cs, the index
\* me, the food list, the grid, the id of the next creature made, and the
\* draws dr.  The result: the creature list, the food list, the offspring
\* (a list of at most one), and what happened.

\* biome.ts 294-340: death, or reproduction
UpdateEnd(x, nearby, d, cs1, food2, c2, eaten, energy) ==
    LET starved == Starves(energy)
        repro == ~starved /\ CanReproduce(energy) /\ Reproduces(x.dr.repro)
        mateOptions == SelectSeq(nearby, LAMBDA k : /\ cs1[k].speciesId = c2.speciesId
                                                    /\ ~cs1[k].dead)
        mates == IF mateOptions = <<>> THEN <<>>
                 ELSE << cs1[mateOptions[1 + (x.dr.mate * Len(mateOptions)) \div RandOne]] >>
        c3 == [c2 EXCEPT !.energy = IF repro THEN energy - ReproduceCost * EnergyUnit
                                             ELSE energy,
                         !.dead = starved]
    IN  [ creatures |-> [cs1 EXCEPT ![x.me] = c3],
          food |-> IF starved
                   THEN spawnFoodAt(food2, c3.position.x, c3.position.y,
                                    DeathPelletEnergy * EnergyUnit)
                   ELSE food2,
          offspring |-> IF repro
                        THEN << MakeChild(c3, x.nextId, mates, x.dr.point, NoNoise,
                                          x.dr.offset, x.dr.vel) >>
                        ELSE <<>>,
          state |-> d.state,
          contact |-> d.contact,
          attacked |-> d.attacked,
          killed |-> d.attacked # 0 /\ cs1[d.attacked].dead,
          eaten |-> eaten,
          target |-> d.target,
          seen |-> { x.cs[nearby[k]].id : k \in DOMAIN nearby },
          mate |-> IF repro /\ mates # <<>> THEN mates[1].id ELSE 0,
          afterCost |-> energy,
          starved |-> starved,
          fertile |-> ~starved /\ CanReproduce(energy),
          hasMates |-> mateOptions # <<>> ]

\* biome.ts 281-292: feed on the pellet at index eat (0: none), pay the
\* metabolic cost
UpdateFeed(x, biome, nearby, d, cs1, food1, c2, eat) ==
    UpdateEnd(x, nearby, d, cs1,
              IF eat # 0 THEN RemoveAt(food1, eat) ELSE food1,
              c2,
              IF eat # 0 THEN << food1[eat] >> ELSE <<>>,
              (IF eat # 0 THEN Feed(c2.energy, food1[eat].energy) ELSE c2.energy)
                  - MetabolicCost(c2, biome))

\* biome.ts 241-284: move, track the biome, look for a pellet in reach
UpdateMove(x, biome, nearby, d, cs1, food1, c1) ==
    UpdateFeed(x, biome, nearby, d, cs1, food1,
               TrackBiome(c1, getBiomeIdAt(x.grid, CellOf(c1.position.x),
                                           CellOf(c1.position.y))),
               ConsumedIndex(food1, c1.position, radius(c1) + 2 * PosUnit))

\* biome.ts 210-220, 241: the attack decided on, with the pellet of a kill
UpdateAct(x, biome, nearby, d, cs1) ==
    UpdateMove(x, biome, nearby, d, cs1,
               IF d.attacked # 0 /\ cs1[d.attacked].dead
               THEN spawnFoodAt(x.food, cs1[d.attacked].position.x,
                                cs1[d.attacked].position.y, KillPelletEnergy * EnergyUnit)
               ELSE x.food,
               Move([cs1[x.me] EXCEPT !.age = @ + 1, !.velocity = d.velocity]))

\* biome.ts 166-239
UpdateDecide(x, biome, nearby, d) ==
    UpdateAct(x, biome, nearby, d,
              IF d.attacked # 0 THEN Attack(x.cs, x.me, d.attacked) ELSE x.cs)

\* biome.ts 159-239
UpdateLook(x, biome, nearby, food) ==
    UpdateDecide(x, biome, nearby,
                 Decide(x.cs, x.me, nearby, food, biome, x.dr.detect, x.dr.attack,
                        x.dr.wander))

\* biome.ts 150-157
UpdateBiome(x, biome) ==
    UpdateLook(x, biome,
               getCreaturesInRadius(x.cs, x.cs[x.me].position,
                                    EffectiveVision(x.cs[x.me], biome), x.cs[x.me].id),
               getFoodInRadius(x.food, x.cs[x.me].position,
                               EffectiveVision(x.cs[x.me], biome)))

\* biome.ts 145-343
Update(x) ==
    UpdateBiome(x, getBiomeAt(x.grid, CellOf(x.cs[x.me].position.x),
                              CellOf(x.cs[x.me].position.y)))

\* the creatures for which cs[me].update() makes a detection draw
\* (biome.ts 187-193): none unless it is aggressive and sees no threat
HuntCandidatesAmong(cs, c, nearby) ==
    IF IsAggressive(c) /\ \A k \in nearby : ~IsThreat(cs[k], c)
    THEN { k \in nearby : IsPreySized(cs[k], c) }
    ELSE {}

HuntCandidates(cs, me, grid) ==
    HuntCandidatesAmong(cs, cs[me],
        Range(getCreaturesInRadius(cs, cs[me].position,
                  EffectiveVision(cs[me], getBiomeAt(grid, CellOf(cs[me].position.x),
                                                     CellOf(cs[me].position.y))),
                  cs[me].id)))

\* the world.ts 205-222 part of one loop iteration: the migration log after
\* the update that turned creature `before` into `after`
TrackMigration(log, before, after) ==
    LET key == <<LastBiome(before, 0), LastBiome(after, 0)>>
    IN  IF ~after.dead /\ key[1] # key[2]
        THEN IF key \in DOMAIN log THEN [log EXCEPT ![key] = @ + 1]
                                   ELSE log @@ (key :> 1)
        ELSE log

\* the number of draws of dr that leave their default
Spent(b, dr) ==
    Cardinality({k \in DOMAIN dr.detect : Cost(b, "detect", dr.detect[k], DetectDefault) = 1})
    + Cost(b, "attack", dr.attack, AttackDefault)
    + Cost(b, "wander", dr.wander, WanderDefault)
    + Cost(b, "reproduce", dr.repro, HalfDraw)

\* the deaths that update u of position `at` of the list cs brought about
DeathsOf(cs, at, u) ==
    (IF u.killed
     THEN << [ id |-> cs[u.attacked].id, x |-> cs[u.attacked].position.x,
               y |-> cs[u.attacked].position.y, starved |-> FALSE, at |-> at ] >>
     ELSE <<>>)
    \o (IF u.starved
        THEN << [ id |-> cs[at].id, x |-> u.creatures[at].position.x,
                  y |-> u.creatures[at].position.y, starved |-> TRUE, at |-> at ] >>
        ELSE <<>>)

\* the state after update u made with the draws dr
CommitUpdate(b, dr, u) ==
    \* a draw the code does not make is not explored
    /\ dr.attack # AttackDefault => u.contact
    /\ dr.wander # WanderDefault => u.state = "wandering"
    /\ dr.repro # HalfDraw => u.fertile /\ idCounter < b.maxIds
    /\ rare + Spent(b, dr) <= b.maxRare
    /\ rare' = rare + Spent(b, dr)
    /\ creatures' = u.creatures
    /\ foodPellets' = u.food
    /\ newCreatures' = newCreatures \o u.offspring
    /\ idCounter' = idCounter + Len(u.offspring)
    /\ migrationLog' = TrackMigration(migrationLog, creatures[cursor], u.creatures[cursor])
    /\ trace' = [trace EXCEPT
                    !.deaths = @ \o DeathsOf(creatures, cursor, u),
                    !.eaten = @ \o [k \in DOMAIN u.eaten |->
                                       [pellet |-> u.eaten[k], at |-> cursor]],
                    !.births = @ + Len(u.offspring),
                    !.madeIds = @ \cup { u.offspring[k].id : k \in DOMAIN u.offspring },
                    !.moves = Append(@, [ id |-> creatures[cursor].id,
                                          from |-> LastBiome(creatures[cursor], -1),
                                          to |-> LastBiome(u.creatures[cursor], -1),
                                          dead |-> u.creatures[cursor].dead ]),
                    !.last = [ at |-> cursor, state |-> u.state, seen |-> u.seen,
                               detect |-> [id \in { creatures[k].id : k \in DOMAIN dr.detect }
                                             |-> dr.detect[CHOOSE k \in DOMAIN dr.detect :
                                                               creatures[k].id = id]],
                               target |-> u.target,
                               attacked |-> IF u.attacked = 0 THEN 0
                                            ELSE creatures[u.attacked].id,
                               mate |-> u.mate, afterCost |-> u.afterCost ]]

\* One iteration of the update loop of advance() (world.ts 204-223).
UpdateCreature(b) ==
    /\ pc = "update"
    /\ cursor <= Len(creatures)
    /\ cursor' = cursor + 1
    /\ IF creatures[cursor].dead
       THEN \* update() returns null at once (biome.ts 146)
            UNCHANGED <<creatures, foodPellets, newCreatures, idCounter, migrationLog,
                        trace, rare>>
       ELSE \E detect \in [HuntCandidates(creatures, cursor, biomeGrid)
                               -> Draws(b, tick, "detect", DetectDefault, b.detects)],
               attackDraw \in Draws(b, tick, "attack", AttackDefault, AttackOthers),
               wanderDraw \in Draws(b, tick, "wander", WanderDefault, WanderOthers),
               reproDraw \in Draws(b, tick, "reproduce", HalfDraw, {0}) :
              CommitUpdate(b,
                  [ detect |-> detect, attack |-> attackDraw, wander |-> wanderDraw,
                    repro |-> reproDraw, mate |-> 0, point |-> 4, offset |-> HalfDraw,
                    vel |-> HalfDraw ],
                  Update([ cs |-> creatures, me |-> cursor, food |-> foodPellets,
                           grid |-> biomeGrid, nextId |-> idCounter + 1,
                           dr |-> [ detect |-> detect, attack |-> attackDraw,
                                    wander |-> wanderDraw, repro |-> reproDraw,
                                    mate |-> 0, point |-> 4, offset |-> HalfDraw,
                                    vel |-> HalfDraw ] ]))
    /\ UNCHANGED <<extinctionHistory, biomeGrid, tick, generation, nextSpeciesId,
                   speciesColors, speciesLabels, lastSpeciationCheck, livingSpeciesCache,
                   speciationEventsByBiome, pc, lastCall, emitted, radiated, ops>>
    /\ UNCHANGED listenerVars

-----------------------------------------------------------------------------
(* generateSpeciesLabel (world.ts 64-70).  The 32-bit hash is held as two  *)
(* 16-bit halves [hi, lo] of its two's-complement bits.                    *)

\* hash = (hash * 31 + ch) & 0xffffffff
HashStep(h, ch) ==
    LET lo == h.lo * 31 + ch
        hi == h.hi * 31 + (lo \div 65536)
    IN  [hi |-> hi % 65536, lo |-> lo % 65536]

RECURSIVE HashFrom(_, _, _)
HashFrom(h, codes, i) ==
    IF i > Len(codes) THEN h ELSE HashFrom(HashStep(h, codes[i]), codes, i + 1)

\* the char codes of the decimal digits of n >= 0
RECURSIVE DigitCodes(_)
DigitCodes(n) ==
    IF n < 10 THEN <<48 + n>> ELSE Append(DigitCodes(n \div 10), 48 + (n % 10))

\* the char codes of `species_${n}`
SpeciesIdCodes(n) == <<115, 112, 101, 99, 105, 101, 115, 95>> \o DigitCodes(n)

\* <<gi, ei>>: the indices into GENUS_PARTS and EPITHET_PARTS (16 entries each)
generateSpeciesLabel(n) ==
    LET h == HashFrom([hi |-> 0, lo |-> 0], SpeciesIdCodes(n), 1)
        negative == h.hi >= 32768
        \* the low half of Math.abs(hash)
        absLo == IF negative THEN (65536 - h.lo) % 65536 ELSE h.lo
        \* the low bits of Math.abs(hash >> 4): floor for hash >= 0, ceiling of
        \* the magnitude for hash < 0
        shifted == IF negative THEN (absLo + 15) \div 16 ELSE h.lo \div 16
    IN  << absLo % 16, shifted % 16 >>

-----------------------------------------------------------------------------
(* World.checkSpeciation (world.ts 361-492)                                *)

\* the last most frequent value (`>=` in place of `>`)
LastModal(arr) ==
    LET count(v) == Cardinality({k \in DOMAIN arr : arr[k] = v})
        firstAt(v) == CHOOSE k \in DOMAIN arr : arr[k] = v /\ \A j \in 1..(k - 1) : arr[j] # v
    IN  CHOOSE v \in Range(arr) :
            \A w \in Range(arr) :
                \/ count(w) < count(v)
                \/ count(w) = count(v) /\ firstAt(w) <= firstAt(v)

\* the first most frequent value of a non-empty list (the `for ... if (c >
\* bestCount)` loops of modalValue and of the dominant group)
FirstModal(arr) ==
    LET count(v) == Cardinality({k \in DOMAIN arr : arr[k] = v})
        firstAt(v) == CHOOSE k \in DOMAIN arr : arr[k] = v /\ \A j \in 1..(k - 1) : arr[j] # v
    IN  CHOOSE v \in Range(arr) :
            \A w \in Range(arr) :
                \/ count(w) < count(v)
                \/ count(w) = count(v) /\ firstAt(v) <= firstAt(w)

\* modalValue(arr)
modalValue(arr) == IF arr = <<>> THEN 0 ELSE FirstModal(arr)

\* the distinct values of a list, in order of first appearance (the key
\* order of a Map filled from it)
Keys(arr) ==
    LET firsts == SelectSeq(Indices(Len(arr)),
                            LAMBDA k : \A j \in 1..(k - 1) : arr[j] # arr[k])
    IN  [k \in DOMAIN firsts |-> arr[firsts[k]]]

\* creature.biomeResidencyTicks >= 200 && other... && creatureBiome !== otherBiome
biomeIsolated(creature, other) ==
    /\ creature.biomeResidencyTicks >= 200
    /\ other.biomeResidencyTicks >= 200
    /\ LastBiome(creature, 0) # LastBiome(other, 0)

\* the threshold at 0.25
InClusterTight(creature, other) ==
    16 * geneticDistanceSq(creature.genome, other.genome) < GeneUnit * GeneUnit

\* genDist + (biomeIsolated ? 0.15 : 0) < 0.35, on the squared distance
InCluster(creature, other) ==
    LET dSq == geneticDistanceSq(creature.genome, other.genome)
    IN  IF biomeIsolated(creature, other)
        THEN 100 * dSq < 4 * GeneUnit * GeneUnit          \* genDist < 0.20
        ELSE 10000 * dSq < 1225 * GeneUnit * GeneUnit     \* genDist < 0.35

RECURSIVE BuildClusters(_, _, _, _)
\* the clustering loop (world.ts 369-404): clusters of indices into cs
BuildClusters(cs, i, assigned, clusters) ==
    IF i > Len(cs) THEN clusters
    ELSE IF i \in assigned THEN BuildClusters(cs, i + 1, assigned, clusters)
    ELSE LET others == SelectSeq(Indices(Len(cs)),
                                 LAMBDA j : /\ j # i
                                            /\ j \notin assigned
                                            /\ InCluster(cs[i], cs[j]))
             cluster == <<i>> \o others
         IN  BuildClusters(cs, i + 1, assigned \cup Range(cluster),
                           Append(clusters, cluster))

Clusters(cs) == BuildClusters(cs, 1, {}, <<>>)

\* Map.set left out
RegisterNothing(map, id, value) == map

\* Map.set(id, value)
Register(map, id, value) ==
    IF id \in DOMAIN map THEN [map EXCEPT ![id] = value] ELSE map @@ (id :> value)

\* the counter read as `species_${--this.nextSpeciesId}` would read it
StaleSpeciesId(counter) == counter - 1

\* the n of `species_${this.nextSpeciesId++}` for the counter value given
FreshSpeciesId(counter) == counter

\* the promotion of group arr (indices) of species sid (world.ts 431-474);
\* st holds the creatures, the counter, the maps and the events so far
Promote(st, arr, sid, parentCreatures, t) ==
    LET cs == st.creatures
        parentModal == modalValue([k \in DOMAIN parentCreatures |->
                                      LastBiome(cs[parentCreatures[k]], 0)])
        childModal == modalValue([k \in DOMAIN arr |-> LastBiome(cs[arr[k]], 0)])
        isAllopatric == parentModal # childModal
        newSpeciesId == FreshSpeciesId(st.nextSpeciesId)
        rep == cs[arr[1]]
        color == getColor(rep.genome)
        label == generateSpeciesLabel(newSpeciesId)
        colors == Register(st.speciesColors, newSpeciesId, color)
        labels == Register(st.speciesLabels, newSpeciesId, label)
        byBiome == st.speciationEventsByBiome
    IN  [ st EXCEPT
          !.creatures = [k \in DOMAIN cs |->
                            IF k \in Range(arr) THEN [cs[k] EXCEPT !.speciesId = newSpeciesId]
                                                ELSE cs[k]],
          !.nextSpeciesId = @ + 1,
          !.speciesColors = colors,
          !.speciesLabels = labels,
          !.speciationEventsByBiome =
              IF ~isAllopatric THEN byBiome
              ELSE IF parentModal \in DOMAIN byBiome
                   THEN Register(byBiome, parentModal, byBiome[parentModal] + 1)
                   ELSE Register(byBiome, parentModal, 1),
          !.events = Append(@,
              [ parentSpeciesId |-> sid, childSpeciesId |-> newSpeciesId, tick |-> t,
                ancestorId |-> rep.ancestorId, color |-> color, label |-> label,
                isAllopatric |-> isAllopatric, sourceBiomeId |-> parentModal,
                \* history: the registry before the promotion and at delivery
                keysBefore |-> DOMAIN st.speciesColors \cup DOMAIN st.speciesLabels,
                colorKeys |-> DOMAIN colors, labelKeys |-> DOMAIN labels ]) ]

RECURSIVE PromoteGroups(_, _, _, _, _, _)
\* the loop over speciesCounts.entries() of one cluster (world.ts 427-475)
PromoteGroups(st, cs0, cluster, sids, k, t) ==
    IF k > Len(sids) THEN st
    ELSE LET group(sid) == SelectSeq(cluster, LAMBDA i : cs0[i].speciesId = sid)
             dominantId == FirstModal([j \in DOMAIN cluster |-> cs0[cluster[j]].speciesId])
             arr == group(sids[k])
         IN  IF sids[k] = dominantId \/ Len(arr) < 3
             THEN PromoteGroups(st, cs0, cluster, sids, k + 1, t)
             ELSE PromoteGroups(Promote(st, arr, sids[k], group(dominantId), t),
                                cs0, cluster, sids, k + 1, t)

RECURSIVE PromoteClusters(_, _, _, _, _)
\* the loop over the clusters (world.ts 406-476)
PromoteClusters(st, cs0, clusters, n, t) ==
    IF n > Len(clusters) THEN st
    ELSE LET cluster == clusters[n]
             sids == Keys([j \in DOMAIN cluster |-> cs0[cluster[j]].speciesId])
         IN  IF Len(cluster) < 4 \/ Len(sids) <= 1
             THEN PromoteClusters(st, cs0, clusters, n + 1, t)
             ELSE PromoteClusters(PromoteGroups(st, cs0, cluster, sids, 1, t),
                                  cs0, clusters, n + 1, t)

RECURSIVE Ascending(_)
\* the members of a finite set of integers, ascending: the key order of the
\* species maps, whose keys are inserted in the order of the species counter
Ascending(S) ==
    IF S = {} THEN <<>>
    ELSE LET m == CHOOSE x \in S : \A y \in S : x <= y
         IN  <<m>> \o Ascending(S \ {m})

\* the extinction check left out
LogNoExtinction(log, registry, livingSpecies, t) == log

\* the extinction check (world.ts 478-491): the log after it
LogExtinctions(log, registry, livingSpecies, t) ==
    LET logged == { log[k].speciesId : k \in DOMAIN log }
        gone == SelectSeq(Ascending(registry),
                          LAMBDA sid : sid \notin livingSpecies /\ sid \notin logged)
    IN  log \o [k \in DOMAIN gone |-> [tick |-> t, speciesId |-> gone[k]]]

\* world.ts 478-491 on the world `after` the promotions
CheckExtinctions(after, t) ==
    [after EXCEPT
        !.livingSpeciesCache = { after.creatures[k].speciesId : k \in DOMAIN after.creatures },
        !.extinctionHistory =
            LogExtinctions(after.extinctionHistory, DOMAIN after.speciesColors,
                           { after.creatures[k].speciesId : k \in DOMAIN after.creatures }, t)]

\* checkSpeciation() on the world held in st, at tick t
checkSpeciation(st, t) ==
    IF Len(st.creatures) < 3 THEN st
    ELSE [ CheckExtinctions(PromoteClusters(st, st.creatures, Clusters(st.creatures), 1, t),
                            t)
           EXCEPT !.clusters = Clusters(st.creatures) ]

-----------------------------------------------------------------------------
(* World.advance, last part (world.ts 225-245)                             *)

\* the offspring never stored
DropOffspring(cs, offspring) == cs

\* world.ts 225-227: the offspring are stored after the loop
InsertOffspring(cs, offspring) == cs \o offspring

\* the removal loop left out
KeepDead(cs) == cs

\* world.ts 229-234
RemoveDead(cs) == SelectSeq(cs, LAMBDA c : ~c.dead)

\* the generation counted one tick late (tick % 500 === 1)
NextGenerationLate(t, g) == IF t % GenerationPeriod = 1 THEN g + 1 ELSE g

\* world.ts 236-239
NextGeneration(t, g) == IF t % GenerationPeriod = 0 THEN g + 1 ELSE g

\* the check made on the multiples of the period (tick % 200 === 0)
DueOnMultiples(t, lastCheck, size) ==
    t % SpeciationPeriod = 0 /\ size >= MinSpeciationPop

\* the check made whatever the number of stored creatures
DueAtAnySize(t, lastCheck, size) == t - lastCheck >= SpeciationPeriod

\* world.ts 242
SpeciationDue(t, lastCheck, size) ==
    t - lastCheck >= SpeciationPeriod /\ size >= MinSpeciationPop

\* the world as checkSpeciation() reads and writes it
WorldOf(stored) ==
    [ creatures |-> stored,
      nextSpeciesId |-> nextSpeciesId,
      speciesColors |-> speciesColors,
      speciesLabels |-> speciesLabels,
      speciationEventsByBiome |-> speciationEventsByBiome,
      livingSpeciesCache |-> livingSpeciesCache,
      extinctionHistory |-> extinctionHistory,
      events |-> <<>>,
      clusters |-> <<>>,
      speciesBefore |-> [k \in DOMAIN stored |-> stored[k].speciesId],
      ran |-> FALSE ]

\* world.ts 242-245 on the collection left by the removal of the dead
SpeciationCheck(stored, t) ==
    IF SpeciationDue(t, lastSpeciationCheck, Len(stored))
    THEN [ checkSpeciation(WorldOf(stored), t) EXCEPT !.ran = TRUE ]
    ELSE WorldOf(stored)

\* the state in which advance() returns; after.ran says whether the pass
\* ran, after.events holds the events it emitted
CommitAdvance(after) ==
    /\ lastSpeciationCheck' = IF after.ran THEN tick ELSE lastSpeciationCheck
    /\ creatures' = after.creatures
    /\ nextSpeciesId' = after.nextSpeciesId
    /\ speciesColors' = after.speciesColors
    /\ speciesLabels' = after.speciesLabels
    /\ speciationEventsByBiome' = after.speciationEventsByBiome
    /\ livingSpeciesCache' = after.livingSpeciesCache
    /\ extinctionHistory' = after.extinctionHistory
    /\ emitted' = emitted \o after.events
    /\ delivered' = delivered \o Calls("speciation", after.events, speciationListeners)
    /\ trace' = [trace EXCEPT !.passRan = after.ran,
                              !.passTicks = IF after.ran THEN Append(trace.passTicks, tick)
                                                         ELSE trace.passTicks,
                              !.clusters = after.clusters,
                              !.speciesBefore = after.speciesBefore,
                              !.logBefore = extinctionHistory]

AdvanceEnd ==
    /\ pc = "update"
    /\ cursor > Len(creatures)
    /\ generation' = NextGeneration(tick, generation)
    /\ CommitAdvance(SpeciationCheck(RemoveDead(InsertOffspring(creatures, newCreatures)),
                                     tick))
    /\ pc' = "idle"
    /\ cursor' = 1
    /\ newCreatures' = <<>>
    /\ UNCHANGED <<foodPellets, biomeGrid, migrationLog, tick, idCounter, lastCall,
                   radiated, ops, rare>>
    /\ UNCHANGED <<speciationListeners, adaptiveRadiationListeners, closures>>

-----------------------------------------------------------------------------
(* World.paintBiome (world.ts 248-287)                                     *)

\* the cells written when coordinates wrap to the opposite side
PaintedCellsWrapped(gridX, gridY, brushRadius) ==
    { ((gridY + d[2]) % GRID_ROWS) * GRID_COLS + ((gridX + d[1]) % GRID_COLS) :
        d \in { e \in (-brushRadius..brushRadius) \X (-brushRadius..brushRadius) :
                  e[1] * e[1] + e[2] * e[2] <= brushRadius * brushRadius } }

\* the cells written by the two loops
PaintedCells(gridX, gridY, brushRadius) ==
    { CellIndex(gridX + d[1], gridY + d[2]) :
        d \in { e \in (-brushRadius..brushRadius) \X (-brushRadius..brushRadius) :
                  e[1] * e[1] + e[2] * e[2] <= brushRadius * brushRadius } }

\* the grid after the loops (a cell painted 0 leaves the sparse grid)
Paint(grid, cells, biomeType) ==
    LET keep == IF biomeType = 0 THEN DOMAIN grid \ cells ELSE DOMAIN grid \cup cells
    IN  IF keep = {} THEN EmptyGrid
        ELSE [idx \in keep |-> IF idx \in cells THEN biomeType ELSE grid[idx]]

\* the event of world.ts 272-286, fired from 15 creatures on
RadiationFromFifteen(cs, colors, gridX, gridY, biomeType) ==
    LET epicenterX == ((2 * gridX + 1) * CELL_SIZE * PosUnit) \div 2
        epicenterY == ((2 * gridY + 1) * CELL_SIZE * PosUnit) \div 2
        nearby == getCreaturesInRadius(cs, [x |-> epicenterX, y |-> epicenterY],
                                       150 * PosUnit, 0)
    IN  IF Len(nearby) >= 15
        THEN << [ biomeType |-> biomeType, epicenterX |-> epicenterX,
                  epicenterY |-> epicenterY, seedPopulation |-> Len(nearby),
                  speciesColors |-> << colors[primordial] >> ] >>
        ELSE <<>>

\* the event of world.ts 272-286, as a list of at most one
Radiation(cs, colors, gridX, gridY, biomeType) ==
    LET epicenterX == ((2 * gridX + 1) * CELL_SIZE * PosUnit) \div 2
        epicenterY == ((2 * gridY + 1) * CELL_SIZE * PosUnit) \div 2
        nearby == getCreaturesInRadius(cs, [x |-> epicenterX, y |-> epicenterY],
                                       150 * PosUnit, 0)
        registered == SelectSeq(nearby, LAMBDA k : cs[k].speciesId \in DOMAIN colors)
        colorSet == Keys([k \in DOMAIN registered |-> colors[cs[registered[k]].speciesId]])
    IN  IF Len(nearby) > 15
        THEN << [ biomeType |-> biomeType, epicenterX |-> epicenterX,
                  epicenterY |-> epicenterY, seedPopulation |-> Len(nearby),
                  speciesColors |-> SubSeq(colorSet, 1, Min(5, Len(colorSet))) ] >>
        ELSE <<>>

PaintBiome(b) ==
    /\ pc = "idle"
    /\ InWindow(b, tick)
    /\ ops < b.maxOps
    /\ \E brush \in b.brushes, biomeType \in b.biomeTypes :
         /\ biomeGrid' = Paint(biomeGrid, PaintedCells(brush[1], brush[2], brush[3]),
                               biomeType)
         /\ radiated' = radiated \o Radiation(creatures, speciesColors, brush[1], brush[2],
                                              biomeType)
         /\ delivered' = delivered
                            \o Calls("radiation",
                                     Radiation(creatures, speciesColors, brush[1], brush[2],
                                               biomeType),
                                     adaptiveRadiationListeners)
         /\ lastCall' = [op |-> "paintBiome", a |-> brush[1], b |-> biomeType,
                         dirty |-> {}]
         /\ trace' = [trace EXCEPT !.clean = FALSE,
                                   !.brush = <<brush[1], brush[2], brush[3], biomeType>>]
    /\ ops' = ops + 1
    /\ UNCHANGED <<creatures, foodPellets, extinctionHistory, migrationLog, tick,
                   generation, nextSpeciesId, speciesColors, speciesLabels,
                   lastSpeciationCheck, livingSpeciesCache, speciationEventsByBiome,
                   idCounter, pc, cursor, newCreatures, emitted, rare>>
    /\ UNCHANGED <<speciationListeners, adaptiveRadiationListeners, closures>>

-----------------------------------------------------------------------------
(* World.triggerExtinctionEvent (world.ts 494-505)                         *)

\* Math.ceil in place of Math.floor
KillCeil(n) == (n * 7 + 9) \div 10

\* Math.floor(creatures.length * 0.7); the double product and the exact
\* one have the same floor for every length below 90
killCount(n) == (n * 7) \div 10

\* the value of Math.floor(Math.random() * (i + 1)) at index i: one of the
\* two ends of its range, as `high` says
ShuffleDraw(i, high) == IF high THEN i ELSE 0

RECURSIVE Shuffle(_, _, _)
\* the Fisher-Yates loop from index i (0-based) down to 1; js[i] is the
\* value of Math.floor(Math.random() * (i + 1))
Shuffle(arr, js, i) ==
    IF i < 1 THEN arr
    ELSE Shuffle([arr EXCEPT ![i + 1] = arr[js[i] + 1], ![js[i] + 1] = arr[i + 1]],
                 js, i - 1)

\* the array after the shuffle whose draws are picked by highs
Shuffled(arr, highs) ==
    Shuffle(arr, [i \in DOMAIN highs |-> ShuffleDraw(i, highs[i])], Len(arr) - 1)

\* the collection after the deletions
Survivors(cs, shuffled, kills) ==
    LET deleted == { shuffled[k].id : k \in 1..kills }
    IN  SelectSeq(cs, LAMBDA c : c.id \notin deleted)

TriggerExtinctionEvent(b) ==
    /\ pc = "idle"
    /\ InWindow(b, tick)
    /\ ops < b.maxOps
    /\ \E highs \in [1..(Len(creatures) - 1) -> BOOLEAN] :
         creatures' = Survivors(creatures, Shuffled(creatures, highs),
                                killCount(Len(creatures)))
    /\ lastCall' = [op |-> "triggerExtinctionEvent", a |-> Len(creatures),
                    b |-> killCount(Len(creatures)), dirty |-> {}]
    /\ trace' = [trace EXCEPT !.clean = FALSE]
    /\ ops' = ops + 1
    /\ UNCHANGED <<foodPellets, extinctionHistory, biomeGrid, migrationLog, tick,
                   generation, nextSpeciesId, speciesColors, speciesLabels,
                   lastSpeciationCheck, livingSpeciesCache, speciationEventsByBiome,
                   idCounter, pc, cursor, newCreatures, emitted, radiated, rare>>
    /\ UNCHANGED listenerVars

-----------------------------------------------------------------------------
(* The world after `new World()` (world.ts 87-115), in a fresh process.    *)
Init ==
    /\ creatures = <<>>
    /\ foodPellets = <<>>
    /\ extinctionHistory = <<>>
    /\ biomeGrid = EmptyGrid
    /\ migrationLog = <<>>
    /\ tick = 0
    /\ generation = 0
    /\ nextSpeciesId = 1
    /\ speciesColors = (primordial :> PrimordialColor)
    /\ speciesLabels = (primordial :> PrimordialLabel)
    /\ lastSpeciationCheck = 0
    /\ livingSpeciesCache = {}
    /\ speciationEventsByBiome = <<>>
    /\ idCounter = 0
    /\ pc = "idle"
    /\ cursor = 1
    /\ newCreatures = <<>>
    /\ lastCall = NoCall
    /\ trace = InitialHistory
    /\ emitted = <<>>
    /\ radiated = <<>>
    /\ ops = 0
    /\ rare = 0
    /\ speciationListeners = <<>>
    /\ adaptiveRadiationListeners = <<>>
    /\ closures = <<>>
    /\ delivered = <<>>

Next ==
    \/ Initialize(Wide)
    \/ AdvanceBegin(Wide)
    \/ UpdateCreature(Wide)
    \/ AdvanceEnd
    \/ PaintBiome(Wide)
    \/ TriggerExtinctionEvent(Wide)

Spec == Init /\ [][Next]_vars

\* Long runs of advance() from one initialize().
NextLong ==
    \/ Initialize(Long)
    \/ AdvanceBegin(Long)
    \/ UpdateCreature(Long)
    \/ AdvanceEnd
    \/ PaintBiome(Long)
    \/ TriggerExtinctionEvent(Long)

SpecLong == Init /\ [][NextLong]_vars

\* Hunts, standoffs, crowds and brushes at the grid edge.
NextField ==
    \/ Initialize(Field)
    \/ AdvanceBegin(Field)
    \/ UpdateCreature(Field)
    \/ AdvanceEnd
    \/ PaintBiome(Field)
    \/ TriggerExtinctionEvent(Field)

SpecField == Init /\ [][NextField]_vars

\* A brush of two colours over one spot, between the ticks.
NextTrail ==
    \/ Initialize(Trail)
    \/ AdvanceBegin(Trail)
    \/ UpdateCreature(Trail)
    \/ AdvanceEnd
    \/ PaintBiome(Trail)
    \/ TriggerExtinctionEvent(Trail)

SpecTrail == Init /\ [][NextTrail]_vars

\* Small worlds whose driving loop keeps calling advance(): a call of
\* advance() that can be made is made, and a running one finishes.
NextDusk ==
    \/ Initialize(Dusk)
    \/ AdvanceBegin(Dusk)
    \/ UpdateCreature(Dusk)
    \/ AdvanceEnd
    \/ PaintBiome(Dusk)
    \/ TriggerExtinctionEvent(Dusk)

SpecDusk == Init /\ [][NextDusk]_vars

\* an iteration of the update loop of a running advance()
LoopRuns == pc = "update" /\ cursor <= Len(creatures) /\ cursor' = cursor + 1

FairDusk ==
    /\ SpecDusk
    /\ WF_vars(AdvanceBegin(Dusk))
    /\ WF_cursor(LoopRuns)
    /\ WF_vars(AdvanceEnd)

-----------------------------------------------------------------------------
(* Speciation.  From initialize() on every creature is 'primordial' and    *)
(* checkSpeciation() promotes nothing.  Its promotions are explored from   *)
(* worlds whose population already carries several species ids, as a host  *)
(* can build them: World.creatures and Creature.speciesId are public, and  *)
(* page.tsx stores designed creatures through world.injectCreature.  Such  *)
(* a world stands one tick before a speciation check, 199 ticks after      *)
(* initialize(); its registry holds 'primordial' and species_1 .. up to    *)
(* the counter.                                                            *)

Pale == <<0, 0, 0, 0, 0, 0, 0, 0>>       \* a grazer far from Grazer in genome
Tinted == <<0, 0, 0, 0, 2, 3, 0, 0>>     \* a grazer at distance 0.25 from Grazer
Tanned == <<0, 0, 0, 0, 2, 4, 0, 0>>     \* at 0.25 from Tinted, at 0.5 from Grazer

\* the populations: lists of <<genome, species id, biome id>>
Casts ==
    { \* a majority and a minority of three
      << <<Grazer, 0, 0>>, <<Grazer, 0, 0>>, <<Grazer, 0, 0>>, <<Grazer, 0, 0>>,
         <<Grazer, 1, 0>>, <<Grazer, 1, 0>>, <<Grazer, 1, 0>> >>,
      \* a tie, the later group 'primordial'
      << <<Grazer, 1, 0>>, <<Grazer, 1, 0>>, <<Grazer, 1, 0>>,
         <<Grazer, 0, 0>>, <<Grazer, 0, 0>>, <<Grazer, 0, 0>> >>,
      \* two minorities of three in one cluster
      << <<Grazer, 0, 0>>, <<Tinted, 1, 0>>, <<Grazer, 0, 0>>, <<Tinted, 1, 0>>,
         <<Grazer, 0, 0>>, <<Tinted, 1, 0>>, <<Grazer, 0, 0>>, <<Grazer, 2, 0>>,
         <<Grazer, 2, 0>>, <<Grazer, 2, 0>> >>,
      \* a minority of two, and a creature of its species in a cluster of its own
      << <<Grazer, 0, 0>>, <<Grazer, 0, 0>>, <<Grazer, 0, 0>>, <<Grazer, 0, 0>>,
         <<Grazer, 1, 0>>, <<Grazer, 1, 0>>, <<Pale, 1, 0>> >>,
      \* a chain: Tinted is near Grazer and near Tanned, Tanned is far from Grazer
      << <<Grazer, 0, 0>>, <<Tanned, 1, 0>>, <<Tinted, 1, 0>>, <<Tanned, 1, 0>>,
         <<Tinted, 1, 0>>, <<Grazer, 0, 0>>, <<Tanned, 1, 0>>, <<Tinted, 1, 0>> >>,
      \* residents of two biomes, near in genome
      << <<Grazer, 0, 0>>, <<Grazer, 0, 0>>, <<Grazer, 0, 0>>, <<Tinted, 1, 3>>,
         <<Tinted, 1, 3>>, <<Tinted, 1, 3>>, <<Grazer, 0, 3>>, <<Grazer, 0, 0>> >> }

\* the grid of a cast: the brush of radius 1 and type cast[i][3] over the
\* cell of every creature that lives outside Savanna
CastGrid(cast) ==
    LET spots == { i \in DOMAIN cast : cast[i][3] # 0 }
        spotOf(idx) == CHOOSE i \in spots : idx \in PaintedCells(10 * i, GRID_ROWS \div 2, 1)
        cells == UNION { PaintedCells(10 * i, GRID_ROWS \div 2, 1) : i \in spots }
    IN  IF spots = {} THEN EmptyGrid ELSE [idx \in cells |-> cast[spotOf(idx)][3]]

\* creature i of a cast: 100 px from its neighbours, settled in its biome
CastCreature(cast, i) ==
    [ NewCreature(i, cast[i][1], [x |-> 100 * i * PosUnit, y |-> (height \div 2) * PosUnit],
                  0, HalfDraw)
      EXCEPT !.speciesId = cast[i][2], !.energy = 60 * EnergyUnit,
             !.age = SpeciationPeriod - 1, !.biomeHistory = << cast[i][3] >>,
             !.biomeResidencyTicks = SpeciationPeriod - 2 ]

\* the species ids of a cast, with 'primordial'
CastSpecies(cast) == {primordial} \cup { cast[i][2] : i \in DOMAIN cast }

InitSpeciation ==
    /\ \E cast \in Casts :
         /\ creatures = [i \in DOMAIN cast |-> CastCreature(cast, i)]
         /\ idCounter = Len(cast)
         /\ nextSpeciesId = 1 + Cardinality(CastSpecies(cast) \ {primordial})
         /\ speciesColors = [sid \in CastSpecies(cast) |->
                               IF sid = primordial THEN PrimordialColor ELSE getColor(Grazer)]
         /\ speciesLabels = [sid \in CastSpecies(cast) |->
                               IF sid = primordial THEN PrimordialLabel
                                                   ELSE generateSpeciesLabel(sid)]
         /\ livingSpeciesCache = {primordial}
         /\ biomeGrid = CastGrid(cast)
    /\ foodPellets = <<>>
    /\ extinctionHistory = <<>>
    /\ migrationLog = <<>>
    /\ tick = SpeciationPeriod - 1
    /\ generation = 0
    /\ lastSpeciationCheck = 0
    /\ speciationEventsByBiome = <<>>
    /\ pc = "idle"
    /\ cursor = 1
    /\ newCreatures = <<>>
    /\ lastCall = [op |-> "advance", a |-> 0, b |-> 0, dirty |-> {}]
    /\ trace = [InitialHistory EXCEPT !.initialized = TRUE, !.clean = FALSE,
                                      !.advances = SpeciationPeriod - 1,
                                      !.madeIds = { creatures[i].id : i \in DOMAIN creatures }]
    /\ emitted = <<>>
    /\ radiated = <<>>
    /\ ops = 0
    /\ rare = 0
    /\ speciationListeners = <<>>
    /\ adaptiveRadiationListeners = <<>>
    /\ closures = <<>>
    /\ delivered = <<>>

NextSpeciation ==
    \/ Initialize(Lab)
    \/ AdvanceBegin(Lab)
    \/ UpdateCreature(Lab)
    \/ AdvanceEnd
    \/ PaintBiome(Lab)
    \/ TriggerExtinctionEvent(Lab)

SpecSpeciation == InitSpeciation /\ [][NextSpeciation]_vars

\* The worlds of a tie and of a majority, every creature with the energy to
\* breed: the check of tick 200 promotes a group, and creatures are born in
\* the ticks after it.
NurseryCasts ==
    { << <<Grazer, 1, 0>>, <<Grazer, 1, 0>>, <<Grazer, 1, 0>>,
         <<Grazer, 0, 0>>, <<Grazer, 0, 0>>, <<Grazer, 0, 0>> >>,
      << <<Grazer, 0, 0>>, <<Grazer, 0, 0>>, <<Grazer, 0, 0>>, <<Grazer, 0, 0>>,
         <<Grazer, 1, 0>>, <<Grazer, 1, 0>>, <<Grazer, 1, 0>> >> }

InitNursery ==
    /\ \E cast \in NurseryCasts :
         /\ creatures = [i \in DOMAIN cast |->
                           [CastCreature(cast, i) EXCEPT !.energy = MaxEnergy * EnergyUnit]]
         /\ idCounter = Len(cast)
         /\ nextSpeciesId = 1 + Cardinality(CastSpecies(cast) \ {primordial})
         /\ speciesColors = [sid \in CastSpecies(cast) |->
                               IF sid = primordial THEN PrimordialColor ELSE getColor(Grazer)]
         /\ speciesLabels = [sid \in CastSpecies(cast) |->
                               IF sid = primordial THEN PrimordialLabel
                                                   ELSE generateSpeciesLabel(sid)]
         /\ biomeGrid = CastGrid(cast)
    /\ livingSpeciesCache = {primordial}
    /\ foodPellets = <<>>
    /\ extinctionHistory = <<>>
    /\ migrationLog = <<>>
    /\ tick = SpeciationPeriod - 1
    /\ generation = 0
    /\ lastSpeciationCheck = 0
    /\ speciationEventsByBiome = <<>>
    /\ pc = "idle"
    /\ cursor = 1
    /\ newCreatures = <<>>
    /\ lastCall = [op |-> "advance", a |-> 0, b |-> 0, dirty |-> {}]
    /\ trace = [InitialHistory EXCEPT !.initialized = TRUE, !.clean = FALSE,
                                      !.advances = SpeciationPeriod - 1,
                                      !.madeIds = { creatures[i].id : i \in DOMAIN creatures }]
    /\ emitted = <<>>
    /\ radiated = <<>>
    /\ ops = 0
    /\ rare = 0
    /\ speciationListeners = <<>>
    /\ adaptiveRadiationListeners = <<>>
    /\ closures = <<>>
    /\ delivered = <<>>

NextNursery ==
    \/ AdvanceBegin(Nursery)
    \/ UpdateCreature(Nursery)
    \/ AdvanceEnd

SpecNursery == InitNursery /\ [][NextNursery]_vars

\* The same worlds, with listeners registered and cancelled between the
\* calls, through a speciation check, then initialize() and a brush over a
\* crowd: advance() and triggerExtinctionEvent() are explored before the
\* first call of initialize() or paintBiome().
AdvanceBeginEarly(b) == ops = 0 /\ AdvanceBegin(b)

TriggerExtinctionEventEarly(b) == ops = 0 /\ TriggerExtinctionEvent(b)

NextListeners ==
    \/ Initialize(Stage)
    \/ AdvanceBeginEarly(Stage)
    \/ TriggerExtinctionEventEarly(Stage)
    \/ UpdateCreature(Stage)
    \/ AdvanceEnd
    \/ PaintBiome(Stage)
    \/ OnSpeciation(Stage)
    \/ OnAdaptiveRadiation(Stage)
    \/ Unsubscribe(Stage)

SpecListeners == InitSpeciation /\ [][NextListeners]_vars

-----------------------------------------------------------------------------
(* The properties.                                                         *)

\* getStats().population (world.ts 507-525): the size of the collection
Population == Len(creatures)

\* the stored creatures whose dead flag is not set
Living == { i \in DOMAIN creatures : ~creatures[i].dead }

\* C1: whenever a call has returned after initialize(), no stored creature
\* has its dead flag set, and getStats().population equals the number of
\* stored creatures that are not dead and is not negative.
C1_NoDeadStored ==
    (pc = "idle" /\ trace.initialized) =>
        /\ \A i \in DOMAIN creatures : ~creatures[i].dead
        /\ Population = Cardinality(Living)
        /\ Population >= 0

\* an advance() has returned in which creatures died, and creatures remain
C1_Witness ==
    /\ pc = "idle"
    /\ trace.initialized
    /\ lastCall.op = "advance"
    /\ trace.deaths # <<>>
    /\ Population > 0

\* the members of cs that are members of `after`, in the order of cs
Kept(cs, after) == SelectSeq(cs, LAMBDA c : c \in Range(after))

DeathPellet(d) == [x |-> d.x, y |-> d.y, energy |-> DeathPelletEnergy * EnergyUnit]

\* the update loop of advance() has ended; the dead are about to be removed
AtRemoval == pc = "update" /\ cursor > Len(creatures)

\* the step is the update() of a creature that is not dead
UpdateStep == pc = "update" /\ cursor' = cursor + 1 /\ ~creatures[cursor].dead

\* what the update() of a creature whose energy ends at or below 0 does
StarvationStep ==
    (UpdateStep /\ creatures'[cursor].energy <= 0) =>
        /\ creatures'[cursor].dead
        /\ foodPellets' # <<>>
        /\ foodPellets'[Len(foodPellets')] =
               [ x |-> creatures'[cursor].position.x,
                 y |-> creatures'[cursor].position.y,
                 energy |-> DeathPelletEnergy * EnergyUnit ]
        /\ newCreatures' = newCreatures

\* the pellet of death d was consumed by a creature updated after it
EatenLater(d) ==
    \E k \in DOMAIN trace.eaten :
        trace.eaten[k].pellet = DeathPellet(d) /\ trace.eaten[k].at > d.at

\* C3 as stated: a starving update marks the creature dead, pushes a
\* 15-energy pellet at its position and returns no offspring, and the
\* pellet is in the food list when advance() removes the creature.
C3_Original ==
    [][ /\ StarvationStep
        /\ (AtRemoval /\ pc' = "idle") =>
               \A k \in DOMAIN trace.deaths :
                   trace.deaths[k].starved =>
                       DeathPellet(trace.deaths[k]) \in Range(foodPellets) ]_vars

\* C3, amended: a starving update marks the creature dead, pushes a
\* 15-energy pellet at its position and returns no offspring; when
\* advance() removes the creature the pellet is in the food list unless a
\* creature updated later in the same tick has consumed it.
C3_StarvationPellet ==
    [][ /\ StarvationStep
        /\ (AtRemoval /\ pc' = "idle") =>
               \A k \in DOMAIN trace.deaths :
                   trace.deaths[k].starved =>
                       \/ DeathPellet(trace.deaths[k]) \in Range(foodPellets)
                       \/ EatenLater(trace.deaths[k]) ]_vars

\* a creature starved in this tick and its pellet lies in the list at the
\* removal
C3_Witness ==
    /\ AtRemoval
    /\ \E k \in DOMAIN trace.deaths :
          /\ trace.deaths[k].starved
          /\ DeathPellet(trace.deaths[k]) \in Range(foodPellets)
          /\ creatures[trace.deaths[k].at].dead
          /\ creatures[trace.deaths[k].at].energy <= 0

\* the species ids carried by the events delivered since initialize()
Children == { emitted[k].childSpeciesId : k \in DOMAIN emitted }

\* C4: between two initialize() calls every speciation event carries a
\* child species id that was no key of the registry before the promotion
\* and is a key of the colour map and of the label map when the event is
\* delivered and afterwards, and no two events carry the same id.
C4_FreshSpeciesIds ==
    /\ \A k \in DOMAIN emitted :
          /\ emitted[k].childSpeciesId \notin emitted[k].keysBefore
          /\ emitted[k].childSpeciesId \in emitted[k].colorKeys
          /\ emitted[k].childSpeciesId \in emitted[k].labelKeys
          /\ emitted[k].childSpeciesId \in DOMAIN speciesColors
          /\ emitted[k].childSpeciesId \in DOMAIN speciesLabels
    /\ Cardinality(Children) = Len(emitted)

\* two promotions in one pass and another one in the next pass
C4_Witness ==
    /\ pc = "idle"
    /\ \E j, k, m \in DOMAIN emitted :
          /\ j < k
          /\ emitted[j].tick = SpeciationPeriod
          /\ emitted[k].tick = SpeciationPeriod
          /\ emitted[m].tick = 2 * SpeciationPeriod

\* the registry covers the stored creatures and the extinction log
RegistryCovers ==
    /\ DOMAIN speciesColors = DOMAIN speciesLabels
    /\ \A i \in DOMAIN creatures : creatures[i].speciesId \in DOMAIN speciesColors
    /\ \A k \in DOMAIN extinctionHistory :
          extinctionHistory[k].speciesId \in DOMAIN speciesColors

\* the step is a call of initialize()
InitializeStep == ops' = ops + 1 /\ lastCall'.op = "initialize"

\* C5: in every state the colour map and the label map have the same keys,
\* among them the species id of every stored creature and every species id
\* of the extinction log; a step that is not a call of initialize() removes
\* no key from either map.
C5_RegistryKeeps ==
    [][ /\ RegistryCovers
        /\ RegistryCovers'
        /\ ~InitializeStep =>
               /\ DOMAIN speciesColors \subseteq DOMAIN speciesColors'
               /\ DOMAIN speciesLabels \subseteq DOMAIN speciesLabels' ]_vars

\* a species promoted by a pass is stored, another one is extinct and logged
C5_Witness ==
    /\ pc = "idle"
    /\ extinctionHistory # <<>>
    /\ Cardinality(DOMAIN speciesColors) >= 3
    /\ \E i \in DOMAIN creatures : creatures[i].speciesId \in Children
    /\ \E k \in DOMAIN extinctionHistory :
          \A i \in DOMAIN creatures :
              creatures[i].speciesId # extinctionHistory[k].speciesId

\* the step is the first part of a call of advance()
AdvanceCall == pc = "idle" /\ pc' = "update"

\* C6: each advance() increases tick by exactly 1, and after k calls of
\* advance() since initialize() tick is k and generation is floor(k / 500).
C6_TickAndGeneration ==
    [][ /\ AdvanceCall => tick' = tick + 1
        /\ (pc = "update" /\ UNCHANGED ops) => tick' = tick
        /\ (pc' = "idle" /\ trace'.initialized) =>
               /\ tick' = trace'.advances
               /\ 500 * generation' <= trace'.advances
               /\ trace'.advances < 500 * (generation' + 1) ]_vars

\* the 500th advance() after initialize() has returned
C6_Witness ==
    /\ pc = "idle"
    /\ trace.initialized
    /\ trace.advances = 500
    /\ tick = 500
    /\ generation = 1

\* initialize() and then a single advance() have returned
FirstAdvanceDone ==
    /\ pc = "idle"
    /\ lastCall.op = "advance"
    /\ trace.initialized
    /\ trace.clean
    /\ trace.advances = 1

C8_Original ==
    /\ (pc = "idle" /\ lastCall.op = "advance") => Len(foodPellets) <= FoodCap
    /\ (pc = "update" /\ cursor = 1 /\ trace.evicted > 0) =>
           foodPellets = SubSeq(trace.spawned, trace.evicted + 1, Len(trace.spawned))

\* C9 as stated: the pass runs in the advance() reaching tick t if and only
\* if t is a multiple of 200 and the population at the end of the tick is
\* at least 5.
C9_Original ==
    (pc = "idle" /\ lastCall.op = "advance" /\ trace.initialized) =>
        (trace.passRan <=> (tick % 200 = 0 /\ Population >= 5))

\* C9, amended: the pass runs in the advance() reaching tick t if and only
\* if t is at least 200 ticks after the tick of the last pass (after 0 when
\* none ran since initialize()) and the population at the end of the tick
\* is at least 5; it then becomes the last pass.
C9_PassWhenDue ==
    (pc = "idle" /\ lastCall.op = "advance" /\ trace.initialized) =>
        /\ trace.passRan <=> (tick - trace.lastCheckBefore >= 200 /\ Population >= 5)
        /\ lastSpeciationCheck = IF trace.passRan THEN tick ELSE trace.lastCheckBefore

\* a pass ran at a tick that is no multiple of 200
C9_Witness ==
    /\ pc = "idle"
    /\ lastCall.op = "advance"
    /\ trace.initialized
    /\ trace.passRan
    /\ tick % 200 # 0

\* C10: whatever the state initialize(P, F) is called in, it leaves exactly
\* P stored creatures, alive and 'primordial', exactly F pellets, tick 0,
\* generation 0, an empty extinction log, an empty migration log, no
\* per-biome speciation counts, a registry holding only 'primordial', a
\* grid that is Savanna in every cell, the last speciation check at 0 and
\* the species counter at 1.
C10_InitializeResets ==
    lastCall.op = "initialize" =>
        /\ Len(creatures) = lastCall.a
        /\ \A i \in DOMAIN creatures :
              ~creatures[i].dead /\ creatures[i].speciesId = primordial
        /\ Len(foodPellets) = lastCall.b
        /\ tick = 0
        /\ generation = 0
        /\ extinctionHistory = <<>>
        /\ migrationLog = <<>>
        /\ speciationEventsByBiome = <<>>
        /\ DOMAIN speciesColors = {primordial}
        /\ DOMAIN speciesLabels = {primordial}
        /\ speciesColors[primordial] = PrimordialColor
        /\ speciesLabels[primordial] = PrimordialLabel
        /\ \A gridX \in 0..(GRID_COLS - 1), gridY \in 0..(GRID_ROWS - 1) :
              getBiomeIdAt(biomeGrid, gridX, gridY) = 0
        /\ lastSpeciationCheck = 0
        /\ nextSpeciesId = 1

\* initialize() was called on a world with creatures, pellets, a painted
\* grid, promoted and extinct species, migrations and a pass behind it
C10_Witness ==
    /\ lastCall.op = "initialize"
    /\ lastCall.a > 0
    /\ lastCall.b > 0
    /\ { "creatures", "foodPellets", "extinctionHistory", "tick", "nextSpeciesId",
         "speciesColors", "speciesLabels", "lastSpeciationCheck", "biomeGrid",
         "migrationLog" } \subseteq lastCall.dirty

-----------------------------------------------------------------------------
(* C11: the adaptive-radiation event of paintBiome()                       *)

\* the step is a call of paintBiome()
PaintStep == ops' = ops + 1 /\ lastCall'.op = "paintBiome"

\* (g + 0.5) * CELL_SIZE
Epicenter(g) == ((2 * g + 1) * CELL_SIZE * PosUnit) \div 2

\* the stored creatures that are not dead and lie within 150 world units of
\* the epicenter of a brush centred on cell (gridX, gridY)
NearEpicenter(cs, gridX, gridY) ==
    { i \in DOMAIN cs :
        /\ ~cs[i].dead
        /\ WithinRadius(cs[i].position.x - Epicenter(gridX),
                        cs[i].position.y - Epicenter(gridY), 150 * PosUnit) }

\* C11: a call of paintBiome() delivers exactly one adaptive-radiation event
\* when more than 15 stored creatures that are not dead lie within 150 world
\* units of the brush epicenter and none otherwise; the event carries that
\* count as seedPopulation and at most 5 colours, all distinct; the call
\* changes no creature, pellet, log, registry entry, tick or generation.
C11_RadiationEvent ==
    [][ PaintStep =>
          LET near == NearEpicenter(creatures, trace'.brush[1], trace'.brush[2])
              fired == SubSeq(radiated', Len(radiated) + 1, Len(radiated'))
          IN  /\ Len(radiated') >= Len(radiated)
              /\ SubSeq(radiated', 1, Len(radiated)) = radiated
              /\ Len(fired) = IF Cardinality(near) > 15 THEN 1 ELSE 0
              /\ \A k \in DOMAIN fired :
                    /\ fired[k].seedPopulation = Cardinality(near)
                    /\ fired[k].biomeType = trace'.brush[4]
                    /\ Len(fired[k].speciesColors) <= 5
                    /\ \A a, b \in DOMAIN fired[k].speciesColors :
                          a # b => fired[k].speciesColors[a] # fired[k].speciesColors[b]
              /\ UNCHANGED <<creatures, foodPellets, extinctionHistory, migrationLog,
                             speciesColors, speciesLabels, tick, generation>> ]_vars

\* a brush over a crowd of 16 has fired one event; a brush far from the
\* crowd and a brush over 15 creatures fire none (C11_Quiet)
C11_Witness ==
    /\ lastCall.op = "paintBiome"
    /\ Len(creatures) = Crowd
    /\ Len(radiated) = 1
    /\ radiated[1].seedPopulation = Crowd
    /\ Cardinality(NearEpicenter(creatures, trace.brush[1], trace.brush[2])) = Crowd

\* a brush over one creature fewer than the crowd has painted without an event
C11_Quiet ==
    /\ lastCall.op = "paintBiome"
    /\ Len(creatures) = Crowd - 1
    /\ radiated = <<>>
    /\ Cardinality(NearEpicenter(creatures, trace.brush[1], trace.brush[2])) = Crowd - 1

-----------------------------------------------------------------------------
(* C12: the cells written by paintBiome()                                  *)

\* the cells of the grid, as <<column, row>>
GridCells == (0 .. GRID_COLS - 1) \X (0 .. GRID_ROWS - 1)

\* biomeGrid[row * GRID_COLS + column]
CellRead(grid, cell) ==
    IF cell[2] * GRID_COLS + cell[1] \in DOMAIN grid
    THEN grid[cell[2] * GRID_COLS + cell[1]]
    ELSE 0

\* the cell is within Euclidean distance r of (gridX, gridY)
UnderBrush(cell, gridX, gridY, r) ==
    (cell[1] - gridX) * (cell[1] - gridX) + (cell[2] - gridY) * (cell[2] - gridY) <= r * r

\* the cells under the brush, each coordinate moved to the nearest one of the grid
ClampedBrush(gridX, gridY, r) ==
    { << Max(0, Min(GRID_COLS - 1, gridX + dx)), Max(0, Min(GRID_ROWS - 1, gridY + dy)) >> :
        <<dx, dy>> \in { e \in (-r .. r) \X (-r .. r) : e[1] * e[1] + e[2] * e[2] <= r * r } }

\* C12 as stated: a call of paintBiome(gridX, gridY, r, type) sets every cell
\* of the grid within distance r of (gridX, gridY) to type and leaves every
\* cell farther than r unchanged, wherever the brush lies.
C12_Original ==
    [][ PaintStep =>
          \A cell \in GridCells :
              CellRead(biomeGrid', cell) =
                  IF UnderBrush(cell, trace'.brush[1], trace'.brush[2], trace'.brush[3])
                  THEN trace'.brush[4]
                  ELSE CellRead(biomeGrid, cell) ]_vars

\* C12: a call of paintBiome(gridX, gridY, r, type) sets to type the cells
\* that the offsets within distance r are clamped to, among them every cell
\* of the grid within distance r, and leaves every other cell unchanged; when
\* (gridX, gridY) is a cell of the grid the cells set are exactly those
\* within distance r.
C12_PaintClamped ==
    [][ PaintStep =>
          LET gridX == trace'.brush[1]
              gridY == trace'.brush[2]
              r == trace'.brush[3]
              written == ClampedBrush(gridX, gridY, r)
          IN  /\ \A cell \in GridCells :
                    /\ CellRead(biomeGrid', cell) =
                          IF cell \in written THEN trace'.brush[4]
                          ELSE CellRead(biomeGrid, cell)
                    /\ UnderBrush(cell, gridX, gridY, r) => cell \in written
              /\ <<gridX, gridY>> \in GridCells =>
                    \A cell \in written : UnderBrush(cell, gridX, gridY, r) ]_vars

\* a brush centred two columns left of the grid has painted the edge cell
\* beside it and nothing at the opposite edge
C12_Witness ==
    /\ lastCall.op = "paintBiome"
    /\ trace.brush[1] < 0
    /\ CellRead(biomeGrid, <<0, trace.brush[2]>>) = trace.brush[4]
    /\ CellRead(biomeGrid, <<GRID_COLS - 1, trace.brush[2]>>) = 0
    /\ CellRead(biomeGrid, <<1, trace.brush[2]>>) = 0

\* a brush centred on the first column has painted up to distance 2 inside
\* the grid
C12_EdgeWitness ==
    /\ lastCall.op = "paintBiome"
    /\ trace.brush[1] = 0
    /\ CellRead(biomeGrid, <<2, trace.brush[2]>>) = trace.brush[4]
    /\ CellRead(biomeGrid, <<3, trace.brush[2]>>) = 0

-----------------------------------------------------------------------------
(* C14: a world filled by initialize() stays 'primordial'                  *)

-----------------------------------------------------------------------------
(* C15: offspring and the dead during the update loop                      *)

\* the ids of the creatures of a list
IdsOf(cs) == { cs[i].id : i \in DOMAIN cs }

\* the ids of the stored creatures flagged dead
DeadIds(cs) == { cs[i].id : i \in { k \in DOMAIN cs : cs[k].dead } }

\* the step is one iteration of the update loop
LoopStep == pc = "update" /\ cursor' = cursor + 1

\* the step is the end of advance(), after the loop
ReturnStep == pc = "update" /\ pc' = "idle"

\* C15: within one advance(), the creature an iteration updates is never an
\* offspring of that tick, the radius query of an update returns neither an
\* offspring of that tick nor a creature already flagged dead, an iteration
\* on a creature flagged dead changes nothing, every iteration keeps the
\* same creatures stored (the dead among them, still flagged), and no
\* creature flagged dead is stored when advance() returns.
C15_DeferredChanges ==
    [][ /\ LoopStep =>
             /\ creatures[cursor].id \notin IdsOf(newCreatures)
             /\ IdsOf(creatures) \cap IdsOf(newCreatures') = {}
             /\ [i \in DOMAIN creatures' |-> creatures'[i].id]
                    = [i \in DOMAIN creatures |-> creatures[i].id]
             /\ DeadIds(creatures) \subseteq DeadIds(creatures')
             /\ creatures[cursor].dead =>
                    UNCHANGED <<creatures, foodPellets, newCreatures, migrationLog>>
             /\ ~creatures[cursor].dead =>
                    /\ trace'.last.at = cursor
                    /\ trace'.last.seen \subseteq IdsOf(creatures) \ DeadIds(creatures)
                    /\ trace'.last.seen \cap IdsOf(newCreatures) = {}
                    /\ trace'.last.attacked \notin DeadIds(creatures)
                    /\ trace'.last.mate \notin DeadIds(creatures) \cup IdsOf(newCreatures)
        /\ ReturnStep =>
             /\ DeadIds(creatures') = {}
             /\ IdsOf(creatures') \cap DeadIds(creatures) = {} ]_vars

\* during a loop that has produced an offspring, a creature has been updated
\* after a creature within 30 world units of it was flagged dead
C15_Witness ==
    /\ pc = "update"
    /\ newCreatures # <<>>
    /\ trace.last.at # 0
    /\ ~creatures[trace.last.at].dead
    /\ \E i \in 1 .. trace.last.at - 1 :
          /\ creatures[i].dead
          /\ Abs(creatures[i].position.x - creatures[trace.last.at].position.x)
                 <= 30 * PosUnit

\* the loop has come to a creature that an earlier update of the tick killed
C15_DeadVisited ==
    /\ pc = "update"
    /\ cursor <= Len(creatures)
    /\ creatures[cursor].dead

-----------------------------------------------------------------------------
(* C16: the behaviour chosen by update()                                   *)

\* the biome under creature c
BiomeUnder(c) == getBiomeAt(biomeGrid, CellOf(c.position.x), CellOf(c.position.y))

\* the indices of the creatures that the creature at index me sees: stored,
\* not dead, not itself, within its effective vision radius
VisibleTo(me) ==
    { k \in DOMAIN creatures :
        /\ k # me
        /\ ~creatures[k].dead
        /\ WithinRadius(creatures[k].position.x - creatures[me].position.x,
                        creatures[k].position.y - creatures[me].position.y,
                        EffectiveVision(creatures[me], BiomeUnder(creatures[me]))) }

\* those of them with aggression > 0.6 and radius > 0.8 x the radius of me
ThreatsTo(me) ==
    { k \in VisibleTo(me) :
        /\ 10 * aggression(creatures[k]) > 6 * GeneUnit
        /\ 10 * radius(creatures[k]) > 8 * radius(creatures[me]) }

\* the pellets that the creature at index me sees
FoodVisibleTo(me) ==
    { j \in DOMAIN foodPellets :
        WithinRadius(foodPellets[j].x - creatures[me].position.x,
                     foodPellets[j].y - creatures[me].position.y,
                     EffectiveVision(creatures[me], BiomeUnder(creatures[me]))) }

\* the squared distance from creature me to creature k
Apart(me, k) ==
    Dist2(creatures[k].position.x, creatures[k].position.y,
          creatures[me].position.x, creatures[me].position.y)

\* the creatures that lose energy in the step without being the one updated
Struck == { k \in DOMAIN creatures \ {cursor} : creatures'[k].energy < creatures[k].energy }

\* C16: every update chooses one of the four behaviours by strict priority.
\* With a visible threat the creature flees, straight away from the nearest
\* threat, and strikes no creature, whatever its own aggression; without
\* one, it hunts only if its aggression is > 0.6, forages only if it sees a
\* pellet and wanders only if it sees none; a creature is struck only by an
\* update of a creature that sees no threat and has aggression > 0.6.
C16_BehaviourPriority ==
    [][ UpdateStep =>
          LET me == cursor
              c == creatures[cursor]
              last == trace'.last
          IN  /\ last.at = me
              /\ last.state \in {"fleeing", "hunting", "foraging", "wandering"}
              /\ last.state = "fleeing" <=> ThreatsTo(me) # {}
              /\ last.state = "hunting" => 10 * aggression(c) > 6 * GeneUnit
              /\ last.state = "foraging" => FoodVisibleTo(me) # {}
              /\ last.state = "wandering" => FoodVisibleTo(me) = {}
              /\ 10 * aggression(c) <= 6 * GeneUnit /\ ThreatsTo(me) = {} =>
                    last.state = IF FoodVisibleTo(me) # {} THEN "foraging" ELSE "wandering"
              /\ ThreatsTo(me) # {} =>
                    /\ Struck = {}
                    /\ last.attacked = 0
                    /\ \E t \in ThreatsTo(me) :
                          /\ \A u \in ThreatsTo(me) : Apart(me, t) <= Apart(me, u)
                          /\ creatures'[me].velocity =
                                Toward(c.position.x - creatures[t].position.x,
                                       c.position.y - creatures[t].position.y,
                                       EffectiveSpeed(c, BiomeUnder(c)))
              /\ Struck # {} \/ last.attacked # 0 =>
                    /\ ThreatsTo(me) = {}
                    /\ 10 * aggression(c) > 6 * GeneUnit
                    /\ last.state = "hunting" ]_vars

\* an aggressive creature in contact with a prey has fled, away from the
\* prey's side, from a threat it saw, and the prey has kept its energy
C16_Witness ==
    /\ pc = "update"
    /\ trace.last.state = "fleeing"
    /\ trace.last.attacked = 0
    /\ IsAggressive(creatures[trace.last.at])
    /\ \E k \in DOMAIN creatures :
          /\ creatures[k].id \in trace.last.seen
          /\ ~IsAggressive(creatures[k])
          /\ IsPreySized(creatures[k], creatures[trace.last.at])
          /\ Abs(creatures[k].position.x - creatures[trace.last.at].position.x)
                < radius(creatures[k]) + radius(creatures[trace.last.at])
          /\ creatures[k].energy = 40 * EnergyUnit + Scale(RandOne - 8, 40 * EnergyUnit)
          /\ Sign(creatures[trace.last.at].velocity.dx)
                = Sign(creatures[trace.last.at].position.x - creatures[k].position.x)

\* a creature that saw no threat has struck its prey
C16_Strike ==
    /\ pc = "update"
    /\ trace.last.state = "hunting"
    /\ trace.last.attacked # 0

-----------------------------------------------------------------------------
(* C17: which candidate prey a hunter detects                              *)

\* the visible creatures with radius < 1.2 x the radius of me
CandidatesOf(me) ==
    { k \in VisibleTo(me) : 10 * radius(creatures[k]) < 12 * radius(creatures[me]) }

\* the draw r exceeds 0.5 x the camouflage of creature k under the biome
\* modifier of the hunter's cell
ExceedsCamouflageOf(r, k, biome) ==
    80 * r > RandOne * camouflage(creatures[k]) * biome.camo_advantage

\* C17 as stated: when a creature with aggression > 0.6 and no visible
\* threat filters its neighbours, a candidate counts as detected exactly
\* when the draw made for it exceeds 0.5 x that candidate's camouflage under
\* the biome modifier: the creature hunts exactly when some candidate's draw
\* does, and its target is one of those candidates.
C17_Original ==
    [][ /\ UpdateStep
        /\ 10 * aggression(creatures[cursor]) > 6 * GeneUnit
        /\ ThreatsTo(cursor) = {}
        /\ CandidatesOf(cursor) # {}
        => LET detected ==
                   { k \in CandidatesOf(cursor) :
                       ExceedsCamouflageOf(trace'.last.detect[creatures[k].id], k,
                                           BiomeUnder(creatures[cursor])) }
           IN  /\ trace'.last.state = "hunting" <=> detected # {}
               /\ trace'.last.state = "hunting" =>
                     trace'.last.target \in { creatures[k].id : k \in detected } ]_vars

-----------------------------------------------------------------------------
(* C18: the pellet a foraging creature steers toward                       *)

\* the squared distance from creature me to pellet j
PelletApart(me, j) ==
    Dist2(foodPellets[j].x, foodPellets[j].y,
          creatures[me].position.x, creatures[me].position.y)

\* the visible pellets with no visible pellet closer to creature me
NearestPellets(me) ==
    { j \in FoodVisibleTo(me) :
        \A i \in FoodVisibleTo(me) : PelletApart(me, j) <= PelletApart(me, i) }

\* the velocity of creature me steering toward pellet j
TowardPellet(me, j) ==
    Toward(foodPellets[j].x - creatures[me].position.x,
           foodPellets[j].y - creatures[me].position.y,
           EffectiveSpeed(creatures[me], BiomeUnder(creatures[me])))

\* C18 as stated: whenever an update forages, the creature aggressive or
\* not, the velocity it sets points to a visible pellet that no visible
\* pellet is closer than, wherever the pellets stand in the food list.
C18_Original ==
    [][ UpdateStep /\ trace'.last.state = "foraging" =>
          \E j \in NearestPellets(cursor) :
              creatures'[cursor].velocity = TowardPellet(cursor, j) ]_vars

\* C18 for the creatures with aggression <= 0.6, for which it holds
C18_Grazers ==
    [][ /\ UpdateStep
        /\ trace'.last.state = "foraging"
        /\ 10 * aggression(creatures[cursor]) <= 6 * GeneUnit
        => \E j \in NearestPellets(cursor) :
               creatures'[cursor].velocity = TowardPellet(cursor, j) ]_vars

\* a grazer between two pellets has steered toward the nearer one, which
\* comes later in the list
C18_GrazerWitness ==
    /\ pc = "update"
    /\ trace.last.state = "foraging"
    /\ ~IsAggressive(creatures[trace.last.at])
    /\ creatures[trace.last.at].velocity.dx < 0
    /\ \E i, j \in DOMAIN foodPellets :
          /\ i < j
          /\ foodPellets[i].x > creatures[trace.last.at].position.x
          /\ foodPellets[i].x - creatures[trace.last.at].position.x < 20 * PosUnit
          /\ foodPellets[j].x < creatures[trace.last.at].position.x

-----------------------------------------------------------------------------
(* C19: the energy range after advance()                                   *)

\* advance() has returned and no other operation has been called since
AfterAdvance == pc = "idle" /\ lastCall.op = "advance"

\* C19 as stated: when advance() has returned, the energy of every stored
\* creature is greater than 0 and at most 100.
C19_Original ==
    AfterAdvance =>
        \A i \in DOMAIN creatures :
            /\ creatures[i].energy > 0
            /\ creatures[i].energy <= MaxEnergy * EnergyUnit

\* the lower half of C19, which holds: when advance() has returned, the
\* energy of every stored creature is greater than 0
C19_Positive ==
    AfterAdvance => \A i \in DOMAIN creatures : creatures[i].energy > 0

-----------------------------------------------------------------------------
(* C20: reproduction in update()                                           *)

\* the offspring that the step adds to the list of the tick
Born == SubSeq(newCreatures', Len(newCreatures) + 1, Len(newCreatures'))

\* C20: an update returns at most one offspring, and one only if the
\* creature is alive after the metabolic cost with energy > 80; the parent
\* then loses exactly 40 and stays above 40; the child has the parent's
\* species id and the parent's id as ancestor id; a mate is a creature that
\* the parent saw at the start of the update (stored, not dead, not the
\* parent, within its vision), is still not dead and is of the parent's
\* species.
C20_Reproduction ==
    [][ UpdateStep =>
          LET parent == creatures'[cursor]
              last == trace'.last
          IN  /\ Len(newCreatures') >= Len(newCreatures)
              /\ SubSeq(newCreatures', 1, Len(newCreatures)) = newCreatures
              /\ Len(Born) <= 1
              /\ Born = <<>> =>
                    /\ last.mate = 0
                    /\ ~parent.dead => parent.energy = last.afterCost
              /\ Born # <<>> =>
                    /\ ~parent.dead
                    /\ last.afterCost > ReproduceThreshold * EnergyUnit
                    /\ parent.energy = last.afterCost - ReproduceCost * EnergyUnit
                    /\ parent.energy > 40 * EnergyUnit
                    /\ Born[1].speciesId = parent.speciesId
                    /\ Born[1].speciesId = creatures[cursor].speciesId
                    /\ Born[1].ancestorId = creatures[cursor].id
                    /\ Born[1].id \notin IdsOf(creatures) \cup IdsOf(newCreatures)
                    /\ ~Born[1].dead
                    /\ last.mate # 0 =>
                          \E k \in VisibleTo(cursor) :
                              /\ creatures[k].id = last.mate
                              /\ ~creatures'[k].dead
                              /\ creatures'[k].speciesId = parent.speciesId ]_vars

\* a creature has reproduced with a mate it saw
C20_Witness ==
    /\ pc = "update"
    /\ trace.last.mate # 0
    /\ newCreatures # <<>>
    /\ newCreatures[Len(newCreatures)].ancestorId = creatures[trace.last.at].id
    /\ creatures[trace.last.at].energy
          = trace.last.afterCost - ReproduceCost * EnergyUnit

\* a creature that saw no creature of its species has reproduced alone
C20_Alone ==
    /\ pc = "update"
    /\ trace.last.at # 0
    /\ trace.last.mate = 0
    /\ newCreatures # <<>>
    /\ newCreatures[Len(newCreatures)].ancestorId = creatures[trace.last.at].id

-----------------------------------------------------------------------------
(* C13: the delivery of events to listeners                                *)

\* the listeners of a kind that are registered: pushed and not cancelled,
\* in the order of their registration
Registered(kind) ==
    SelectSeq(Indices(Len(closures)),
              LAMBDA l : closures[l].kind = kind /\ ~closures[l].cancelled)

\* the calls that the step makes to listeners
NewCalls == SubSeq(delivered', Len(delivered) + 1, Len(delivered'))

\* the events that the step produces
NewSpeciations ==
    IF ReturnStep THEN SubSeq(emitted', Len(emitted) + 1, Len(emitted')) ELSE <<>>

NewRadiations ==
    IF PaintStep THEN SubSeq(radiated', Len(radiated) + 1, Len(radiated')) ELSE <<>>

\* the calls are those of the given events, each made once to each of the
\* listeners, event after event, and for each event in the listeners' order
DeliveredTo(calls, kind, events, listeners) ==
    /\ \A k \in DOMAIN calls :
          /\ calls[k].kind = kind
          /\ calls[k].to \in Range(listeners)
          /\ calls[k].event \in Range(events)
    /\ \A l \in Range(listeners) :
          LET mine == SelectSeq(calls, LAMBDA d : d.to = l)
          IN  [k \in DOMAIN mine |-> mine[k].event] = events
    /\ \A a \in DOMAIN events :
          LET its == SelectSeq(calls, LAMBDA d : d.event = events[a])
          IN  [k \in DOMAIN its |-> its[k].to] = listeners
    /\ \A i, j \in DOMAIN calls :
          i < j =>
              \A a, b \in DOMAIN events :
                  calls[i].event = events[a] /\ calls[j].event = events[b] => a <= b

\* C13: the calls to listeners are made in the step of advance() or
\* paintBiome() that produces the event and in no other step; every event is
\* delivered exactly once to each listener registered when the call is
\* made, in registration order, and to no listener whose unsubscribe
\* function has been called; both arrays hold the registered listeners in
\* registration order, and initialize() leaves them as they are.
C13_Delivery ==
    [][ /\ Len(delivered') >= Len(delivered)
        /\ SubSeq(delivered', 1, Len(delivered)) = delivered
        /\ speciationListeners = Registered("speciation")
        /\ adaptiveRadiationListeners = Registered("radiation")
        /\ ReturnStep =>
              DeliveredTo(NewCalls, "speciation", NewSpeciations, Registered("speciation"))
        /\ PaintStep =>
              DeliveredTo(NewCalls, "radiation", NewRadiations, Registered("radiation"))
        /\ ~ReturnStep /\ ~PaintStep => NewCalls = <<>>
        /\ \A k \in DOMAIN NewCalls : ~closures[NewCalls[k].to].cancelled
        /\ InitializeStep =>
              /\ UNCHANGED <<speciationListeners, adaptiveRadiationListeners, closures>>
              /\ speciationListeners' = Registered("speciation")
              /\ adaptiveRadiationListeners' = Registered("radiation") ]_vars

\* the calls made to listener l, as the list of their events
CallsTo(l) ==
    LET mine == SelectSeq(delivered, LAMBDA d : d.to = l)
    IN  [k \in DOMAIN mine |-> mine[k].event]

\* two listeners registered before initialize() have received the event of
\* a first brush over the crowd, the earlier one first; it was then
\* cancelled, and the event of a second brush has reached the other alone
C13_Witness ==
    /\ lastCall.op = "paintBiome"
    /\ Len(radiated) = 2
    /\ \E a, b \in DOMAIN closures :
          /\ a < b
          /\ closures[a].kind = "radiation" /\ closures[b].kind = "radiation"
          /\ closures[a].madeAt = 0 /\ closures[b].madeAt = 0
          /\ closures[a].cancelled /\ ~closures[b].cancelled
          /\ CallsTo(a) = << radiated[1] >>
          /\ CallsTo(b) = radiated
          /\ \E k \in 1 .. Len(delivered) - 1 :
                /\ delivered[k].to = a
                /\ delivered[k + 1].to = b
                /\ delivered[k + 1].event = delivered[k].event

\* a speciation check has promoted two groups with two listeners registered:
\* four calls, the first event to both listeners, then the second
C13_Speciations ==
    /\ pc = "idle"
    /\ Len(emitted) = 2
    /\ speciationListeners = <<1, 2>>
    /\ delivered = << [to |-> 1, kind |-> "speciation", event |-> emitted[1]],
                      [to |-> 2, kind |-> "speciation", event |-> emitted[1]],
                      [to |-> 1, kind |-> "speciation", event |-> emitted[2]],
                      [to |-> 2, kind |-> "speciation", event |-> emitted[2]] >>

-----------------------------------------------------------------------------
(* C21: the clusters of a speciation pass                                  *)

\* advance() has returned and its pass ran
PassReturned == pc = "idle" /\ lastCall.op = "advance" /\ trace.passRan

\* the penalty of a pair, in hundredths: 15 when both have resided 200
\* ticks and their current biome ids differ
IsolationPenalty(a, b) ==
    IF /\ a.biomeResidencyTicks >= SpeciationPeriod
       /\ b.biomeResidencyTicks >= SpeciationPeriod
       /\ a.biomeHistory # <<>>
       /\ b.biomeHistory # <<>>
       /\ a.biomeHistory[Len(a.biomeHistory)] # b.biomeHistory[Len(b.biomeHistory)]
    THEN 15 ELSE 0

\* effective distance below 0.35: sqrt(sum of squares) / GeneUnit + penalty
\* / 100 < 35 / 100, squared
EffectivelyNear(a, b) ==
    LET sumSq == geneticDistanceSq(a.genome, b.genome)
        room == 35 - IsolationPenalty(a, b)
    IN  100 * 100 * sumSq < room * room * GeneUnit * GeneUnit

\* the creatures of the clusters before cluster n
ClusteredBefore(n) == UNION { Range(trace.clusters[m]) : m \in 1..(n - 1) }

\* C21: the clusters of a pass partition the stored population; the seed
\* of each cluster is the first creature, in population order, that no
\* earlier cluster holds, and a creature that no earlier cluster holds is
\* in the cluster if and only if it is the seed or its effective distance to
\* the seed is below 0.35.
C21_SeedClusters ==
    PassReturned =>
        /\ \A i \in DOMAIN creatures :
              Cardinality({ <<n, k>> \in (DOMAIN trace.clusters) \X (1..Len(creatures)) :
                              k \in DOMAIN trace.clusters[n]
                              /\ trace.clusters[n][k] = i }) = 1
        /\ \A n \in DOMAIN trace.clusters :
              LET cluster == trace.clusters[n]
                  free == DOMAIN creatures \ ClusteredBefore(n)
              IN  /\ cluster # <<>>
                  /\ Range(cluster) \subseteq DOMAIN creatures
                  /\ cluster[1] \in free
                  /\ \A i \in free : cluster[1] <= i
                  /\ \A i \in free :
                        i \in Range(cluster)
                            <=> (i = cluster[1]
                                 \/ EffectivelyNear(creatures[cluster[1]], creatures[i]))

\* a pass in which a creature stays out of the cluster of a seed that is
\* far from it, although a member of that cluster is near it; and a pass in
\* which the penalty alone keeps a creature out of a cluster
C21_Witness ==
    /\ PassReturned
    /\ \E n \in DOMAIN trace.clusters, i \in DOMAIN creatures :
          /\ i \notin ClusteredBefore(n + 1)
          /\ \E k \in Range(trace.clusters[n]) :
                geneticDistanceSq(creatures[k].genome, creatures[i].genome) = 1

C21_Isolated ==
    /\ PassReturned
    /\ \E n \in DOMAIN trace.clusters, i \in DOMAIN creatures :
          /\ i \notin ClusteredBefore(n + 1)
          /\ IsolationPenalty(creatures[trace.clusters[n][1]], creatures[i]) = 15
          /\ geneticDistanceSq(creatures[trace.clusters[n][1]].genome,
                               creatures[i].genome) = 1
    /\ \E n \in DOMAIN trace.clusters :
          \E i \in Range(trace.clusters[n]) :
              IsolationPenalty(creatures[trace.clusters[n][1]], creatures[i]) = 15

-----------------------------------------------------------------------------
(* C22: the promotions of a speciation pass                                *)

\* the members of cluster n that carried species id sid before the pass
GroupOf(n, sid) ==
    { i \in Range(trace.clusters[n]) : trace.speciesBefore[i] = sid }

\* the species ids carried in cluster n before the pass
SpeciesIn(n) == { trace.speciesBefore[i] : i \in Range(trace.clusters[n]) }

\* the place in cluster n of the first member that carried sid
FirstPlace(n, sid) ==
    CHOOSE k \in DOMAIN trace.clusters[n] :
        /\ trace.speciesBefore[trace.clusters[n][k]] = sid
        /\ \A j \in 1..(k - 1) : trace.speciesBefore[trace.clusters[n][j]] # sid

\* the group with the most members, the first such group on a tie
DominantOf(n) ==
    CHOOSE sid \in SpeciesIn(n) :
        \A other \in SpeciesIn(n) \ {sid} :
            \/ Cardinality(GroupOf(n, other)) < Cardinality(GroupOf(n, sid))
            \/ /\ Cardinality(GroupOf(n, other)) = Cardinality(GroupOf(n, sid))
               /\ FirstPlace(n, sid) < FirstPlace(n, other)

\* the <<cluster, species id>> of the groups the claim has promoted
PromotedGroups ==
    { g \in UNION { {n} \X SpeciesIn(n) : n \in DOMAIN trace.clusters } :
        /\ Len(trace.clusters[g[1]]) >= 4
        /\ Cardinality(SpeciesIn(g[1])) > 1
        /\ g[2] # DominantOf(g[1])
        /\ Cardinality(GroupOf(g[1], g[2])) >= 3 }

\* the events emitted by the pass of this tick
PassEvents == { k \in DOMAIN emitted : emitted[k].tick = tick }

\* C22: after a pass, every member of a promoted group (a group of at
\* least 3 of one species id, other than the largest or first-largest
\* group, in a cluster of at least 4 with several species ids) carries one
\* id that nobody carried and the registry did not hold before, different
\* for each group; the pass emitted exactly one event per promoted group,
\* from the group's old id to its new one; every other creature carries
\* the species id it carried before.
C22_Promotions ==
    PassReturned =>
        /\ Len(trace.speciesBefore) = Len(creatures)
        /\ \A g \in PromotedGroups :
              \E fresh \in DOMAIN speciesColors :
                  /\ fresh \notin Range(trace.speciesBefore)
                  /\ \A i \in DOMAIN creatures :
                        creatures[i].speciesId = fresh <=> i \in GroupOf(g[1], g[2])
                  /\ Cardinality({ k \in PassEvents :
                                     emitted[k].childSpeciesId = fresh }) = 1
                  /\ \A k \in PassEvents :
                        emitted[k].childSpeciesId = fresh =>
                            /\ emitted[k].parentSpeciesId = g[2]
                            /\ fresh \notin emitted[k].keysBefore
        /\ Cardinality(PassEvents) = Cardinality(PromotedGroups)
        /\ \A i \in DOMAIN creatures :
              (\A g \in PromotedGroups : i \notin GroupOf(g[1], g[2])) =>
                  creatures[i].speciesId = trace.speciesBefore[i]

\* a pass that promoted two groups of one cluster; a pass that settled a
\* tie for the earlier group; a pass that left a group of two alone
C22_Witness ==
    /\ PassReturned
    /\ \E g, h \in PromotedGroups : g[1] = h[1] /\ g[2] # h[2]

C22_Tie ==
    /\ PassReturned
    /\ \E g \in PromotedGroups :
          Cardinality(GroupOf(g[1], g[2])) = Cardinality(GroupOf(g[1], DominantOf(g[1])))

C22_SmallGroup ==
    /\ PassReturned
    /\ \E n \in DOMAIN trace.clusters :
          /\ Len(trace.clusters[n]) >= 4
          /\ \E sid \in SpeciesIn(n) : Cardinality(GroupOf(n, sid)) = 2
          /\ \E sid \in SpeciesIn(n) : sid # DominantOf(n)

-----------------------------------------------------------------------------
(* C23: the extinction log                                                 *)

\* the species ids of a log
LoggedIn(log) == { log[k].speciesId : k \in DOMAIN log }

\* the creatures that the removal of the dead leaves for the pass: the
\* stored ones and the offspring of the tick that are not dead
LeftForPass == { c \in Range(creatures) \cup Range(newCreatures) : ~c.dead }

\* C23: a pass appends to the log, with the tick, each registered species id
\* that no stored creature carries after the pass and that the log did not
\* hold, once, and nothing else; a step without a pass that is no
\* initialize() leaves the log as it is; no species id is logged twice; the
\* pass stores the creatures it was given, none dead.
C23_ExtinctionLog ==
    [][ /\ (ReturnStep /\ trace'.passRan) =>
              LET gone == { sid \in DOMAIN speciesColors' :
                              /\ \A i \in DOMAIN creatures' : creatures'[i].speciesId # sid
                              /\ sid \notin LoggedIn(extinctionHistory) }
                  added == SubSeq(extinctionHistory', Len(extinctionHistory) + 1,
                                  Len(extinctionHistory'))
              IN  /\ Len(extinctionHistory') = Len(extinctionHistory) + Cardinality(gone)
                  /\ SubSeq(extinctionHistory', 1, Len(extinctionHistory)) = extinctionHistory
                  /\ LoggedIn(added) = gone
                  /\ \A k \in DOMAIN added : added[k].tick = tick'
                  /\ { c.id : c \in Range(creatures') } = { c.id : c \in LeftForPass }
                  /\ Len(creatures') = Cardinality(LeftForPass)
                  /\ \A i \in DOMAIN creatures' : ~creatures'[i].dead
        /\ (~(ReturnStep /\ trace'.passRan) /\ lastCall'.op # "initialize") =>
              extinctionHistory' = extinctionHistory
        /\ Cardinality(LoggedIn(extinctionHistory')) = Len(extinctionHistory')
      ]_vars

\* a pass has logged a species id, and a later pass, finding that id still
\* registered and carried by nobody, has logged another one only
C23_Witness ==
    /\ PassReturned
    /\ trace.logBefore # <<>>
    /\ Len(extinctionHistory) > Len(trace.logBefore)

C23_FirstEntry ==
    /\ PassReturned
    /\ trace.logBefore = <<>>
    /\ extinctionHistory # <<>>

-----------------------------------------------------------------------------
(* C24: the biome history and the residency counter                        *)

\* the biome id of the cell under creature c
BiomeIdUnder(c) ==
    CellRead(biomeGrid, << c.position.x \div (CELL_SIZE * PosUnit),
                          c.position.y \div (CELL_SIZE * PosUnit) >>)

\* C24: after the update of a creature that was not dead, its biome history
\* has 1 to 5 entries, no two neighbours equal, the last one the biome id of
\* the cell it stands on after moving; its residency counter is 0 when that
\* id differs from the last entry before the update or the history was
\* empty, and one more than before otherwise.
C24_BiomeHistory ==
    [][ UpdateStep =>
          LET before == creatures[cursor]
              after == creatures'[cursor]
              h == after.biomeHistory
          IN  /\ Len(h) >= 1
              /\ Len(h) <= HistoryLen
              /\ \A k \in 1 .. Len(h) - 1 : h[k] # h[k + 1]
              /\ h[Len(h)] = BiomeIdUnder(after)
              /\ after.biomeResidencyTicks =
                    IF \/ before.biomeHistory = <<>>
                       \/ before.biomeHistory[Len(before.biomeHistory)] # BiomeIdUnder(after)
                    THEN 0
                    ELSE before.biomeResidencyTicks + 1
      ]_vars

\* a creature with a full history has entered another biome: the oldest
\* entry is gone; and a creature has stayed two ticks in a biome it entered
C24_Witness ==
    \E i \in DOMAIN creatures :
        /\ creatures[i].biomeHistory = <<3, 0, 3, 0, 3>>
        /\ creatures[i].biomeResidencyTicks = 0

C24_Resident ==
    \E i \in DOMAIN creatures :
        /\ Len(creatures[i].biomeHistory) = 2
        /\ creatures[i].biomeResidencyTicks = 2

-----------------------------------------------------------------------------
(* C25: the migration log                                                  *)

\* the counter of the ordered pair key in a log
CountIn(log, key) == IF key \in DOMAIN log THEN log[key] ELSE 0

\* the ordered pairs of distinct biome ids
BiomePairs == { key \in (0 .. BIOME_COUNT - 1) \X (0 .. BIOME_COUNT - 1) : key[1] # key[2] }

\* C25 as stated: a step that is no initialize() lowers no counter, and
\* when advance() returns the counter of each pair (a, b) has grown by the
\* number of creatures, stored at the end of the tick, whose recorded
\* current biome was a before their update and is b after it; an update of a
\* creature without a recorded biome counts for no pair.
C25_Original ==
    [][ /\ lastCall'.op # "initialize" =>
              /\ DOMAIN migrationLog \subseteq DOMAIN migrationLog'
              /\ \A key \in DOMAIN migrationLog : migrationLog'[key] >= migrationLog[key]
        /\ ReturnStep =>
              /\ DOMAIN migrationLog' \subseteq BiomePairs
              /\ \A key \in BiomePairs :
                    CountIn(migrationLog', key) - CountIn(trace.migrationBefore, key)
                      = Cardinality({ k \in DOMAIN trace.moves :
                                        /\ trace.moves[k].from = key[1]
                                        /\ trace.moves[k].to = key[2]
                                        /\ \E i \in DOMAIN creatures' :
                                              creatures'[i].id = trace.moves[k].id })
      ]_vars

\* what the code counts: an update of a creature without a recorded biome
\* counts as one out of biome 0, and the creature counts if it is not dead
\* when its own update returns
C25_AsCoded ==
    [][ /\ lastCall'.op # "initialize" =>
              /\ DOMAIN migrationLog \subseteq DOMAIN migrationLog'
              /\ \A key \in DOMAIN migrationLog : migrationLog'[key] >= migrationLog[key]
        /\ ReturnStep =>
              /\ DOMAIN migrationLog' \subseteq BiomePairs
              /\ \A key \in BiomePairs :
                    CountIn(migrationLog', key) - CountIn(trace.migrationBefore, key)
                      = Cardinality({ k \in DOMAIN trace.moves :
                                        /\ Max(0, trace.moves[k].from) = key[1]
                                        /\ trace.moves[k].to = key[2]
                                        /\ ~trace.moves[k].dead })
      ]_vars

\* a creature with a recorded biome has entered another one and been counted
C25_Moved ==
    /\ AfterAdvance
    /\ \E k \in DOMAIN trace.moves :
          /\ trace.moves[k].from = 3
          /\ trace.moves[k].to = 0
          /\ CountIn(migrationLog, <<3, 0>>) > CountIn(trace.migrationBefore, <<3, 0>>)

\* a creature born in a painted cell is counted, at its first update, as
\* one that left biome 0
C25_Newborn ==
    /\ AfterAdvance
    /\ \E k \in DOMAIN trace.moves, i \in DOMAIN creatures :
          /\ creatures[i].id = trace.moves[k].id
          /\ creatures[i].ancestorId # 0
          /\ trace.moves[k].from = -1
          /\ trace.moves[k].to = 3
          /\ CountIn(migrationLog, <<0, 3>>) > CountIn(trace.migrationBefore, <<0, 3>>)

-----------------------------------------------------------------------------
(* C26: one pellet per death                                               *)

\* the creatures that the step flags dead
NewlyDead == { i \in DOMAIN creatures : ~creatures[i].dead /\ creatures'[i].dead }

\* the number of pellets that the update of the step consumed
EatenNow == Len(trace'.eaten) - Len(trace.eaten)

\* the pellets after the step that were not there before it
NewPellets == Range(foodPellets') \ Range(foodPellets)

\* C26: an iteration of the update loop adds exactly one pellet for each
\* creature it flags dead (15 for the updated creature, 20 for a creature it
\* struck) and no other; it leaves every creature that was flagged dead as
\* it was, strikes none of them, and an iteration on a creature flagged dead
\* changes neither the creatures nor the pellets; triggerExtinctionEvent()
\* leaves the pellets as they are.
C26_OnePelletPerDeath ==
    [][ /\ LoopStep =>
              /\ Len(foodPellets') + EatenNow = Len(foodPellets) + Cardinality(NewlyDead)
              /\ \A i \in DOMAIN creatures : creatures[i].dead => creatures'[i] = creatures[i]
              /\ creatures[cursor].dead =>
                    /\ creatures' = creatures
                    /\ foodPellets' = foodPellets
                    /\ newCreatures' = newCreatures
              /\ \A i \in DOMAIN creatures :
                    (~creatures[cursor].dead /\ creatures[i].id = trace'.last.attacked) =>
                        ~creatures[i].dead
              /\ \A p \in NewPellets :
                    \E i \in NewlyDead :
                        /\ p.x = creatures'[i].position.x
                        /\ p.y = creatures'[i].position.y
                        /\ p.energy = IF i = cursor THEN DeathPelletEnergy * EnergyUnit
                                                    ELSE KillPelletEnergy * EnergyUnit
        /\ (ops' = ops + 1 /\ lastCall'.op = "triggerExtinctionEvent") =>
              foodPellets' = foodPellets
      ]_vars

\* a creature killed by a strike, the only death of the tick so far, has had
\* its turn in the loop afterwards
C26_Witness ==
    /\ pc = "update"
    /\ \E k \in DOMAIN trace.deaths, i \in DOMAIN creatures :
          /\ ~trace.deaths[k].starved
          /\ creatures[i].id = trace.deaths[k].id
          /\ creatures[i].dead
          /\ trace.deaths[k].at < i
          /\ i < cursor
          /\ Len(trace.deaths) = 1

\* a creature has starved in its update
C26_Starved ==
    /\ pc = "update"
    /\ \E k \in DOMAIN trace.deaths : trace.deaths[k].starved

\* triggerExtinctionEvent() has removed creatures
C26_Culled ==
    /\ lastCall.op = "triggerExtinctionEvent"
    /\ lastCall.b > 0
    /\ foodPellets # <<>>

-----------------------------------------------------------------------------
(* C27: a species that is gone is logged in the end                        *)

\* the species ids of the explored worlds
SpeciesIds == 0 .. 4

\* sid is registered and no stored creature carries it
Gone(sid) ==
    /\ sid \in DOMAIN speciesColors
    /\ \A i \in DOMAIN creatures : creatures[i].speciesId # sid

\* getStats().extinctSpecies counts sid: the log holds it
CountedExtinct(sid) ==
    /\ \E k \in DOMAIN extinctionHistory : extinctionHistory[k].speciesId = sid
    /\ Len(extinctionHistory) >= 1

C27_Fallen ==
    /\ pc = "idle"
    /\ tick = LabTick
    /\ ops = 1
    /\ lastSpeciationCheck = SpeciationPeriod
    /\ Len(creatures) > 0
    /\ Len(creatures) < MinSpeciationPop
    /\ \E sid \in SpeciesIds : Gone(sid) /\ ~CountedExtinct(sid)

-----------------------------------------------------------------------------
(* C28: an extinct species never comes back                                *)

\* the species ids of the extinction log
LoggedSpecies(log) == { log[k].speciesId : k \in DOMAIN log }

\* the species ids carried by the creatures of a list
Carried(cs) == { cs[i].speciesId : i \in DOMAIN cs }

\* C28: between two initialize() calls the extinction log keeps its entries,
\* and in the state that holds an entry and in every later one no stored
\* creature, and no offspring waiting to be stored, carries the species id
\* of the entry.
C28_ExtinctStaysExtinct ==
    [][ /\ LoggedSpecies(extinctionHistory') \cap Carried(creatures') = {}
        /\ LoggedSpecies(extinctionHistory') \cap Carried(newCreatures') = {}
        /\ ~InitializeStep =>
               /\ Len(extinctionHistory) <= Len(extinctionHistory')
               /\ \A k \in DOMAIN extinctionHistory :
                      extinctionHistory'[k] = extinctionHistory[k] ]_vars

\* a species was logged at one pass, and a later pass has promoted a group to
\* a species id of its own while the logged one is still carried by nobody
C28_Witness ==
    /\ pc = "idle"
    /\ Len(extinctionHistory) >= 1
    /\ \E k \in DOMAIN emitted : emitted[k].tick > extinctionHistory[1].tick
    /\ Len(creatures) >= MinSpeciationPop

\* a creature was born after a species was logged
C28_BornAfter ==
    /\ Len(extinctionHistory) >= 1
    /\ \E i \in DOMAIN creatures : creatures[i].age < tick - extinctionHistory[1].tick

-----------------------------------------------------------------------------
(* C29: the spacing of the speciation passes                               *)

\* the tick of the last of the passes listed in ticks, 0 when none ran
LastPass(ticks) == IF ticks = <<>> THEN 0 ELSE ticks[Len(ticks)]

\* the step on which advance() returns has run a pass
PassStep == ReturnStep /\ trace'.passTicks # trace.passTicks

\* the tick before the one that ends was already 200 ticks or more after
\* the last pass: the pass was put off
PutOff == tick - 1 - LastPass(trace.passTicks) >= SpeciationPeriod

\* C29: the ticks of the passes run since initialize() lie 200 or more
\* apart, the first of them at tick 200 or later; a tick in which a pass
\* runs ends with 5 stored creatures or more; a tick that is 200 or more
\* after the last pass and runs none ends with fewer than 5; and when the
\* pass was put off, it runs in the first tick that ends with 5 or more.
C29_PassSpacing ==
    [][ ReturnStep =>
          /\ PassStep => /\ trace'.passTicks = Append(trace.passTicks, tick')
                         /\ tick' - LastPass(trace.passTicks) >= SpeciationPeriod
                         /\ tick' >= SpeciationPeriod
                         /\ Len(creatures') >= MinSpeciationPop
          /\ (~PassStep /\ tick' - LastPass(trace.passTicks) >= SpeciationPeriod)
                 => Len(creatures') < MinSpeciationPop
          /\ (PutOff /\ Len(creatures') >= MinSpeciationPop) => PassStep ]_vars

\* a pass that was put off at tick 200 for a population of 4 has run at the
\* first tick that ended with 5
C29_Witness ==
    /\ pc = "idle"
    /\ lastCall.op = "advance"
    /\ trace.passTicks # <<>>
    /\ LastPass(trace.passTicks) = tick
    /\ tick > SpeciationPeriod
    /\ Len(trace.passTicks) = 1
    /\ trace.popBefore < MinSpeciationPop
    /\ Len(creatures) >= MinSpeciationPop

\* two passes have run, the second 200 ticks after the first
C29_Second ==
    /\ Len(trace.passTicks) = 2
    /\ trace.passTicks[2] - trace.passTicks[1] = SpeciationPeriod

-----------------------------------------------------------------------------
(* C30: creature ids                                                       *)

\* no two creatures of the list share an id
DistinctIds(cs) == Cardinality(IdsOf(cs)) = Len(cs)

\* the creatures constructed by the step: the population of initialize(),
\* the offspring of an update
Constructed ==
    IF InitializeStep THEN creatures'
    ELSE IF LoopStep THEN SubSeq(newCreatures', Len(newCreatures) + 1, Len(newCreatures'))
    ELSE <<>>

\* C30: every creature constructed, by initialize() or by an update, gets
\* an id that no creature constructed before it in the process has had,
\* whatever initialize() calls lie between; the stored creatures and the
\* waiting offspring have pairwise distinct ids, so when advance() stores
\* the offspring every one of them is a new entry: the collection grows by
\* their number, before the dead are removed.
C30_DistinctIds ==
    [][ /\ DistinctIds(Constructed)
        /\ IdsOf(Constructed) \cap trace.madeIds = {}
        /\ trace'.madeIds = trace.madeIds \cup IdsOf(Constructed)
        /\ idCounter' >= idCounter
        /\ DistinctIds(creatures' \o newCreatures')
        /\ ReturnStep =>
              /\ Cardinality(IdsOf(creatures) \cup IdsOf(newCreatures))
                    = Len(creatures) + Len(newCreatures)
              /\ creatures' = SelectSeq(creatures \o newCreatures, LAMBDA c : ~c.dead) ]_vars

\* after a second initialize(), offspring of the first tick are stored next
\* to the whole population of that call
C30_Witness ==
    /\ pc = "idle"
    /\ lastCall.op = "advance"
    /\ trace.advances = 1
    /\ trace.births >= 1
    /\ Len(creatures) = trace.initPop + trace.births
    /\ Cardinality(trace.madeIds) > Len(creatures)

=============================================================================
